---- MODULE Spec2Model ----
(***************************************************************************)
(* FFXIV Market Analyzer: the robust aggregation and ranking pipeline.     *)
(*                                                                         *)
(*   SpecRank    the tail of the /api/top-items handler (bestToSell        *)
(*               filter, sort, top-N) and the library's rankItems          *)
(*   SpecDay     upsertDailyStats on one day's sales                       *)
(*   SpecTable   the clock, upsertDailyStats and the anchor backfill on    *)
(*               the stored rows of one (item, world)                      *)
(*   SpecAnchor  the anchor backfill over two histories of one key         *)
(*   SpecMetrics the head of the handler (query, per-item aggregation,     *)
(*               threshold filters) and calculateMetrics + filterItems     *)
(*                                                                         *)
(* Numbers that are fractions in the program are kept exact: a velocity    *)
(* is units/days, a score is a fraction num/den, a median is carried       *)
(* doubled and a MAD quadrupled.                                           *)
(***************************************************************************)
EXTENDS Integers, Sequences, FiniteSets, Bags, TLC

VARIABLES
    pc,                 \* position of the operation under study
    params,             \* the parsed query parameters of the request
    itemsWithMetrics,   \* route.ts: items that passed the filter stage
    filteredItems,      \* route.ts: the list handed to sort (before sorting)
    ranked,             \* the list after sort
    topItems,           \* the list after slice(0, topN)
    response,           \* the HTTP outcome
    recentHistory,      \* upsertDailyStats: the sales inside the 24 h window
    verdicts,           \* per sale, the return that ended the filter callback
    dailyRow,           \* the column values upsertDailyStats writes
    keyAnchor,          \* typical_price_30d on the key's row when the call starts
    now,                \* the clock, in ticks (TicksPerDay ticks a day)
    history,            \* Universalis recentHistory of the one (item, world)
    table,              \* the daily_item_stats rows of the one (item, world)
    lastCall,           \* inputs and writes of the latest upsertDailyStats call
    callParity,         \* flips at every upsertDailyStats call
    anchorDay,          \* the date D whose anchor is compared
    historyA,           \* one history of the key's rows
    historyB,           \* a history that agrees with historyA before D
    edits,              \* number of changes made to historyB
    anchoredA,          \* historyA after the backfill run
    anchoredB,          \* historyB after the same backfill run
    backfillDay,        \* the day the backfill ran on
    dailyItemStats,     \* the daily_item_stats rows the handlers query
    filters,            \* handler, mode and filter parameters of the request
    aggregatedItems,    \* the per-item aggregates before the threshold filters
    callerValues,       \* the array a caller hands to median or percentile
    statCall,           \* the latest call of a statistics function
    fetchCalls,         \* the calls of the two fetch wrappers in progress, as a bag
    tokens,             \* XIVAPI limiter: whole tokens in the bucket
    activeRequests,     \* XIVAPI limiter: requests between acquire and release
    returned,           \* calls that have returned a response
    thrown              \* calls that have thrown

rankVars == <<params, itemsWithMetrics, filteredItems, ranked, topItems, response>>

dayVars == <<recentHistory, verdicts, dailyRow, keyAnchor>>

tableVars == <<now, history, table, lastCall, callParity>>

anchorVars == <<anchorDay, historyA, historyB, edits, anchoredA, anchoredB, backfillDay>>

metricVars == <<dailyItemStats, filters, aggregatedItems>>

statVars == <<callerValues, statCall>>

fetchVars == <<fetchCalls, tokens, activeRequests, returned, thrown>>

vars == <<pc, rankVars, dayVars, tableVars, anchorVars, metricVars, statVars, fetchVars>>

\* A nullable number is <<>> (null, undefined or NaN) or <<n>>.
Null == <<>>
NaN == <<>>
Some(n) == <<n>>
Val(x) == x[1]

\* ------------------------------------------------------------------------
\* Sequence helpers
\* ------------------------------------------------------------------------

\* Array.prototype.slice(0, end) with JavaScript's handling of a negative,
\* oversized or NaN end.
SliceFromZero(s, end) ==
    LET n == Len(s)
        k == IF end = NaN THEN 0
             ELSE IF Val(end) < 0 THEN (IF n + Val(end) > 0 THEN n + Val(end) ELSE 0)
             ELSE IF Val(end) > n THEN n ELSE Val(end)
    IN  SubSeq(s, 1, k)

\* All sequences over S of length 0..n.
SeqsUpTo(S, n) == UNION {[1..k -> S] : k \in 0..n}

\* ------------------------------------------------------------------------
\* Ranking: scores
\* ------------------------------------------------------------------------

\* A score is a fraction num/den (den > 0), or -Infinity.
Fin(n, d) == [inf |-> FALSE, num |-> n, den |-> d]
NegInf == [inf |-> TRUE, num |-> 0, den |-> 1]

\* salesVelocity = totalUnitsSold / days, compared with a threshold a/b.
VelocityAtLeast(item, a, b) == item.unitsSold * b >= a * item.days

\* The mutant moves every tier's boundary to the tier below (> for >=).
BonusStrictTiers(item) ==
    IF ~VelocityAtLeast(item, 5, 1) \/ item.unitsSold = 5 * item.days
    THEN IF ~VelocityAtLeast(item, 1, 1) \/ item.unitsSold = item.days
         THEN IF ~VelocityAtLeast(item, 1, 2) \/ 2 * item.unitsSold = item.days
              THEN 10 ELSE 12
         ELSE 15
    ELSE 18

\* reliabilityBonus, times ten.
ReliabilityBonus10(item) ==
    IF VelocityAtLeast(item, 5, 1) THEN 18
    ELSE IF VelocityAtLeast(item, 1, 1) THEN 15
    ELSE IF VelocityAtLeast(item, 1, 2) THEN 12
    ELSE 10

\* marginPercent = (profitPerUnit / avgPrice) * 100
MarginScore(item) == Fin(Val(item.profitPerUnit) * 100, item.avgPrice)

\* route.ts getRankingValue: a null profit or margin counts as 0.
RouteRankingValue(item, rankingMetric) ==
    CASE rankingMetric = "bestToSell" ->
            Fin(item.avgPrice * item.unitsSold * ReliabilityBonus10(item),
                item.days * 10)
      [] rankingMetric = "revenue" -> Fin(item.totalRevenue, 1)
      [] rankingMetric = "volume" -> Fin(item.unitsSold, 1)
      [] rankingMetric = "avgPrice" -> Fin(item.avgPrice, 1)
      [] rankingMetric = "profit" ->
            IF item.profitPerUnit = Null THEN Fin(0, 1)
            ELSE Fin(Val(item.profitPerUnit), 1)
      [] rankingMetric = "roi" ->
            IF item.profitPerUnit = Null THEN Fin(0, 1) ELSE MarginScore(item)
      [] OTHER -> Fin(item.totalRevenue, 1)

\* profitability.ts getRankingValue: a null profit or margin is -Infinity.
LibRankingValue(item, rankingMetric) ==
    CASE rankingMetric = "revenue" -> Fin(item.totalRevenue, 1)
      [] rankingMetric = "volume" -> Fin(item.unitsSold, 1)
      [] rankingMetric = "avgPrice" -> Fin(item.avgPrice, 1)
      [] rankingMetric = "profit" ->
            IF item.profitPerUnit = Null THEN NegInf
            ELSE Fin(Val(item.profitPerUnit), 1)
      [] rankingMetric = "roi" ->
            IF item.profitPerUnit = Null THEN NegInf ELSE MarginScore(item)
      [] OTHER -> Fin(item.totalRevenue, 1)

getRankingValue(item, rankingMetric, path) ==
    IF path = "route" THEN RouteRankingValue(item, rankingMetric)
    ELSE LibRankingValue(item, rankingMetric)

\* The sign of x - y as the comparator sees it: -Infinity - -Infinity is
\* NaN, which sort treats as 0.
SubSign(x, y) ==
    IF x.inf /\ y.inf THEN 0
    ELSE IF x.inf THEN -1
    ELSE IF y.inf THEN 1
    ELSE LET l == x.num * y.den
             r == y.num * x.den
         IN  IF l > r THEN 1 ELSE IF l < r THEN -1 ELSE 0

\* The comparator (a, b) => getRankingValue(b) - getRankingValue(a).
Comparator(a, b, rankingMetric, path) ==
    SubSign(getRankingValue(b, rankingMetric, path),
            getRankingValue(a, rankingMetric, path))

\* ------------------------------------------------------------------------
\* Ranking: sort
\* ------------------------------------------------------------------------

\* Insert x after every element that does not compare greater than it.
RECURSIVE InsertStable(_, _, _, _)
InsertStable(sorted, x, rankingMetric, path) ==
    IF sorted = <<>> THEN <<x>>
    ELSE IF Comparator(Head(sorted), x, rankingMetric, path) <= 0
         THEN <<Head(sorted)>> \o InsertStable(Tail(sorted), x, rankingMetric, path)
         ELSE <<x>> \o sorted

\* The mutant inserts x before the elements it ties with.
RECURSIVE InsertBeforeTies(_, _, _, _)
InsertBeforeTies(sorted, x, rankingMetric, path) ==
    IF sorted = <<>> THEN <<x>>
    ELSE IF Comparator(Head(sorted), x, rankingMetric, path) < 0
         THEN <<Head(sorted)>> \o InsertBeforeTies(Tail(sorted), x, rankingMetric, path)
         ELSE <<x>> \o sorted

RECURSIVE SortUnstable(_, _, _)
SortUnstable(items, rankingMetric, path) ==
    IF items = <<>> THEN <<>>
    ELSE InsertBeforeTies(SortUnstable(SubSeq(items, 1, Len(items) - 1), rankingMetric, path),
                          items[Len(items)], rankingMetric, path)

\* Array.prototype.sort with the comparator: a stable sort (ECMAScript 2019).
RECURSIVE SortItems(_, _, _)
SortItems(items, rankingMetric, path) ==
    IF items = <<>> THEN <<>>
    ELSE InsertStable(SortItems(SubSeq(items, 1, Len(items) - 1), rankingMetric, path),
                      items[Len(items)], rankingMetric, path)

\* ------------------------------------------------------------------------
\* Ranking: the bestToSell filter with its staged fallback
\* ------------------------------------------------------------------------

minPriceBestToSell == 200

Stage1(item) ==
    /\ item.unitsSold > 0
    /\ item.totalRevenue > 0
    /\ VelocityAtLeast(item, 1, 5)
    /\ item.avgPrice >= minPriceBestToSell

Stage2(item) ==
    /\ item.unitsSold > 0
    /\ item.totalRevenue > 0
    /\ VelocityAtLeast(item, 1, 2)

Stage3(item) == item.unitsSold > 0 /\ item.totalRevenue > 0

\* The mutant stops after the first stage.
BestToSellNoFallback(items) == SelectSeq(items, Stage1)

BestToSellFilter(items) ==
    LET s1 == SelectSeq(items, Stage1)
        s2 == SelectSeq(items, Stage2)
        s3 == SelectSeq(items, Stage3)
    IN  IF s1 # <<>> THEN s1
        ELSE IF s2 # <<>> THEN s2
        ELSE IF s3 # <<>> THEN s3
        ELSE items

\* ------------------------------------------------------------------------
\* SpecRank: items with metrics -> filter for bestToSell -> sort -> top N
\* ------------------------------------------------------------------------

MaxItems == 3

\* Metric profiles an aggregated item can have: units, average price,
\* revenue and material cost (0: no recipe).
Profiles ==
    { [unitsSold |-> 1,  avgPrice |-> 100, totalRevenue |-> 100,   materialCost |-> 0],
      [unitsSold |-> 1,  avgPrice |-> 300, totalRevenue |-> 300,   materialCost |-> 500],
      [unitsSold |-> 4,  avgPrice |-> 300, totalRevenue |-> 1200,  materialCost |-> 100],
      [unitsSold |-> 4,  avgPrice |-> 100, totalRevenue |-> 400,   materialCost |-> 0],
      [unitsSold |-> 35, avgPrice |-> 300, totalRevenue |-> 10500, materialCost |-> 0],
      [unitsSold |-> 15, avgPrice |-> 300, totalRevenue |-> 4500,  materialCost |-> 0],
      [unitsSold |-> 4,  avgPrice |-> 300, totalRevenue |-> 1200,  materialCost |-> 0] }

Timeframes == {1, 7, 30}

RankingMetrics == {"bestToSell", "revenue", "volume", "avgPrice", "profit", "roi"}

\* What parseInt leaves in topN: an integer of either sign, or NaN; 25 when
\* the parameter is absent.
TopNValues == {NaN} \cup {Some(n) : n \in {-1, 0, 1, 2, 25}}

\* profitPerUnit as both handlers compute it from the recipe's material cost.
ProfitPerUnit(avgPrice, materialCost) ==
    IF materialCost > 0 /\ avgPrice > 0 THEN Some(avgPrice - materialCost) ELSE Null

MkItem(id, p, days) ==
    [id |-> id, unitsSold |-> p.unitsSold, days |-> days,
     totalRevenue |-> p.totalRevenue, avgPrice |-> p.avgPrice,
     profitPerUnit |-> ProfitPerUnit(p.avgPrice, p.materialCost)]

NoParams == [rankingMetric |-> "none", topN |-> NaN, path |-> "none"]

IdleRank ==
    /\ params = NoParams
    /\ itemsWithMetrics = <<>>
    /\ filteredItems = <<>>
    /\ ranked = <<>>
    /\ topItems = <<>>
    /\ response = [status |-> 0, items |-> <<>>]

IdleDay ==
    /\ recentHistory = <<>>
    /\ verdicts = <<>>
    /\ dailyRow = Null
    /\ keyAnchor = Null

NoCall ==
    [now |-> 0, recentHistory |-> <<>>, listings |-> <<>>, verdicts |-> <<>>,
     storedAnchor |-> Null, statDate |-> 0, row |-> Null,
     repeat |-> FALSE, prevRow |-> Null, rowsBefore |-> 0]

IdleTable ==
    /\ now = 0
    /\ history = <<>>
    /\ table = {}
    /\ lastCall = NoCall
    /\ callParity = FALSE

IdleAnchor ==
    /\ anchorDay = 0
    /\ historyA = {}
    /\ historyB = {}
    /\ edits = 0
    /\ anchoredA = {}
    /\ anchoredB = {}
    /\ backfillDay = 0

NoFilters ==
    [path |-> "none", mode |-> "auto", days |-> 7, categories |-> {},
     craftableOnly |-> FALSE, nonCraftableOnly |-> FALSE,
     minSalesVelocity |-> Null, minRevenue |-> Null, maxListings |-> Null,
     minPrice |-> Null]

IdleMetrics ==
    /\ dailyItemStats = {}
    /\ filters = NoFilters
    /\ aggregatedItems = <<>>

NoStatCall == [fn |-> "none", p10 |-> 0, values |-> <<>>, result |-> Null]

IdleStats ==
    /\ callerValues = <<>>
    /\ statCall = NoStatCall

IdleFetch ==
    /\ fetchCalls = EmptyBag
    /\ tokens = 0
    /\ activeRequests = 0
    /\ returned = 0
    /\ thrown = 0

InitRank ==
    /\ pc = "ready"
    /\ IdleDay
    /\ IdleTable
    /\ IdleAnchor
    /\ IdleMetrics
    /\ IdleStats
    /\ IdleFetch
    /\ params = NoParams
    /\ \E days \in Timeframes : \E ps \in SeqsUpTo(Profiles, MaxItems) :
          itemsWithMetrics = [i \in 1..Len(ps) |-> MkItem(i, ps[i], days)]
    /\ filteredItems = <<>>
    /\ ranked = <<>>
    /\ topItems = <<>>
    /\ response = [status |-> 0, items |-> <<>>]

\* route.ts GET, from the bestToSell filter to the response.
GetTopItems ==
    /\ pc = "ready"
    /\ \E rankingMetric \in RankingMetrics : \E topN \in TopNValues :
          LET filtered == IF rankingMetric = "bestToSell"
                          THEN BestToSellFilter(itemsWithMetrics)
                          ELSE itemsWithMetrics
              sorted == SortItems(filtered, rankingMetric, "route")
              top == SliceFromZero(sorted, topN)
          IN  /\ params' = [rankingMetric |-> rankingMetric, topN |-> topN,
                            path |-> "route"]
              /\ filteredItems' = filtered
              /\ ranked' = sorted
              /\ topItems' = top
              /\ response' = [status |-> 200, items |-> top]
    /\ pc' = "done"
    /\ UNCHANGED statVars
    /\ UNCHANGED fetchVars
    /\ UNCHANGED <<itemsWithMetrics, dayVars, tableVars, anchorVars, metricVars>>

\* profitability.ts rankItems and the slice of its caller.
RankItems ==
    /\ pc = "ready"
    /\ \E rankingMetric \in RankingMetrics \ {"bestToSell"} : \E topN \in TopNValues :
          LET sorted == SortItems(itemsWithMetrics, rankingMetric, "lib")
              top == SliceFromZero(sorted, topN)
          IN  /\ params' = [rankingMetric |-> rankingMetric, topN |-> topN,
                            path |-> "lib"]
              /\ filteredItems' = itemsWithMetrics
              /\ ranked' = sorted
              /\ topItems' = top
              /\ response' = [status |-> 200, items |-> top]
    /\ pc' = "done"
    /\ UNCHANGED statVars
    /\ UNCHANGED fetchVars
    /\ UNCHANGED <<itemsWithMetrics, dayVars, tableVars, anchorVars, metricVars>>

NextRank == GetTopItems \/ RankItems

SpecRank == InitRank /\ [][NextRank]_vars

\* ------------------------------------------------------------------------
\* Robust statistics (market-data.ts). Values that can be halves are
\* carried doubled (suffix 2), quarters quadrupled (suffix 4).
\* ------------------------------------------------------------------------

RECURSIVE InsertAsc(_, _)
InsertAsc(sorted, v) ==
    IF sorted = <<>> THEN <<v>>
    ELSE IF Head(sorted) <= v THEN <<Head(sorted)>> \o InsertAsc(Tail(sorted), v)
         ELSE <<v>> \o sorted

\* [...values].sort((a, b) => a - b)
RECURSIVE SortAsc(_)
SortAsc(values) ==
    IF values = <<>> THEN <<>>
    ELSE InsertAsc(SortAsc(Tail(values)), Head(values))

\* Math.floor(n / 2)
Mid(n) == n \div 2

\* The mutant takes the upper of the two middle elements of an even-length
\* list instead of their mean.
MedianUpperMiddle(values) ==
    LET sorted == SortAsc(values)
        n == Len(sorted)
    IN  IF n = 0 THEN 0 ELSE 2 * sorted[Mid(n) + 1]

\* median, doubled: 0 for an empty list.
Median2(values) ==
    LET sorted == SortAsc(values)
        n == Len(sorted)
        mid == Mid(n)
    IN  IF n = 0 THEN 0
        ELSE IF n % 2 = 0 THEN sorted[mid] + sorted[mid + 1]
        ELSE 2 * sorted[mid + 1]

\* quartiles, doubled: the medians of the lower and upper halves, the middle
\* element of an odd-length list left out of both.
Quartiles2(values) ==
    LET sorted == SortAsc(values)
        n == Len(sorted)
        mid == Mid(n)
        lower == SubSeq(sorted, 1, mid)
        upper == IF n % 2 = 0 THEN SubSeq(sorted, mid + 1, n)
                 ELSE SubSeq(sorted, mid + 2, n)
    IN  IF n = 0 THEN [q1 |-> 0, q3 |-> 0]
        ELSE [q1 |-> Median2(lower), q3 |-> Median2(upper)]

Abs(x) == IF x < 0 THEN -x ELSE x

\* mad, quadrupled: the median of |v - med|, from the doubled median.
Mad4(values, med2) ==
    IF values = <<>> THEN 0
    ELSE Median2([i \in 1..Len(values) |-> Abs(2 * values[i] - med2)])

\* Math.round(n / d) for n >= 0, d > 0: halves round up.
RoundDiv(n, d) == (2 * n + d) \div (2 * d)

RECURSIVE SumSeq(_)
SumSeq(values) == IF values = <<>> THEN 0 ELSE Head(values) + SumSeq(Tail(values))

MinOf(values) == CHOOSE v \in {values[i] : i \in 1..Len(values)} :
                    \A j \in 1..Len(values) : v <= values[j]

MaxOf(values) == CHOOSE v \in {values[i] : i \in 1..Len(values)} :
                    \A j \in 1..Len(values) : v >= values[j]

\* ------------------------------------------------------------------------
\* upsertDailyStats: the day's figures from the sales in the 24 h window
\* ------------------------------------------------------------------------

MinRobustSample == 5
AnchorCeilingFactor == 20
IqrFactor == 3
MadFactor == 6
CheapAnchorLimit == 1000
ClampFactor == 10

\* hasEnoughSales: counted on the whole window, before any rejection.
EnoughWhenThree(entries) == Len(entries) >= 3

HasEnoughSales(entries) == Len(entries) >= MinRobustSample

\* The quantities the filter closes over.
DayContext(entries) ==
    LET prices == [i \in 1..Len(entries) |-> entries[i].pricePerUnit]
        med2 == Median2(prices)
        q == Quartiles2(prices)
    IN  [prices |-> prices,
         priceMedian2 |-> med2,
         q1x2 |-> q.q1,
         q3x2 |-> q.q3,
         iqr2 |-> q.q3 - q.q1,
         dailyMad4 |-> Mad4(prices, med2),
         hasEnoughSales |-> HasEnoughSales(entries),
         \* anchor = priceMedian > 0 ? priceMedian : null
         hasAnchor |-> med2 > 0]

\* p > anchorUpper, anchorUpper = anchor * 20 or Infinity.
AboveAnchorCeiling(p, ctx) ==
    ctx.hasAnchor /\ 2 * p > ctx.priceMedian2 * AnchorCeilingFactor

\* p > Math.min(iqrUpper, madUpper), madUpper infinite when the MAD is 0.
AboveStatCeiling(p, ctx) ==
    \/ 2 * p > ctx.q3x2 + IqrFactor * ctx.iqr2
    \/ ctx.dailyMad4 > 0 /\ 4 * p > 2 * ctx.priceMedian2 + MadFactor * ctx.dailyMad4

\* isLikelyCheap && quantity === 1 && p > q3 * 20
SingleUnitGuard(entry, ctx) ==
    /\ ctx.hasAnchor
    /\ ctx.priceMedian2 < 2 * CheapAnchorLimit
    /\ entry.quantity = 1
    /\ 2 * entry.pricePerUnit > ctx.q3x2 * 20

\* The filter callback, by the return that ends it.
Verdict(entry, ctx) ==
    IF AboveAnchorCeiling(entry.pricePerUnit, ctx) THEN "anchor"
    ELSE IF ctx.hasEnoughSales /\ AboveStatCeiling(entry.pricePerUnit, ctx) THEN "stat"
    ELSE IF SingleUnitGuard(entry, ctx) THEN "single"
    ELSE "keep"

Verdicts(entries) ==
    LET ctx == DayContext(entries)
    IN  [i \in 1..Len(entries) |-> Verdict(entries[i], ctx)]

RECURSIVE KeepWhere(_, _)
KeepWhere(entries, vs) ==
    IF entries = <<>> THEN <<>>
    ELSE IF Head(vs) = "keep"
         THEN <<Head(entries)>> \o KeepWhere(Tail(entries), Tail(vs))
         ELSE KeepWhere(Tail(entries), Tail(vs))

FilteredSales(entries) == KeepWhere(entries, Verdicts(entries))

\* The mutant raises every kept price to the cap instead of lowering to it.
ClampedFromBelow(entries) ==
    LET ctx == DayContext(entries)
        kept == FilteredSales(entries)
        cap == (ctx.priceMedian2 * ClampFactor) \div 2
    IN  [i \in 1..Len(kept) |->
            [kept[i] EXCEPT !.pricePerUnit =
                IF ctx.priceMedian2 > 0 /\ @ < cap THEN cap ELSE @]]

\* The mutant passes the kept sales on at their own prices.
UnclampedSales(entries) == FilteredSales(entries)

\* clampCap = clampBase * 10 (an integer: five times the doubled median).
ClampedSales(entries) ==
    LET ctx == DayContext(entries)
        kept == FilteredSales(entries)
        cap == (ctx.priceMedian2 * ClampFactor) \div 2
    IN  [i \in 1..Len(kept) |->
            [kept[i] EXCEPT !.pricePerUnit =
                IF ctx.priceMedian2 > 0 /\ @ > cap THEN cap ELSE @]]

Revenue(entries) ==
    SumSeq([i \in 1..Len(entries) |-> entries[i].pricePerUnit * entries[i].quantity])

Units(entries) == SumSeq([i \in 1..Len(entries) |-> entries[i].quantity])

\* The column values of the upserted row, the key and updated_at aside.
DailyStats(entries, listings) ==
    LET unitsSold == Units(entries)
        totalRevenue == Revenue(entries)
        prices == [i \in 1..Len(entries) |-> entries[i].pricePerUnit]
        clamped == ClampedSales(entries)
        robustPrices == [i \in 1..Len(clamped) |-> clamped[i].pricePerUnit]
    IN  [units_sold |-> unitsSold,
         total_revenue |-> totalRevenue,
         avg_price |-> IF unitsSold > 0 THEN RoundDiv(totalRevenue, unitsSold) ELSE 0,
         min_price |-> IF Len(prices) > 0 THEN Some(MinOf(prices)) ELSE Null,
         max_price |-> IF Len(prices) > 0 THEN Some(MaxOf(prices)) ELSE Null,
         active_listings |-> Len(listings),
         total_listings_quantity |-> SumSeq(listings),
         robust_avg_price |-> IF Len(robustPrices) > 0
                              THEN Some(RoundDiv(Median2(robustPrices), 2))
                              ELSE Null,
         robust_total_revenue |-> Revenue(clamped),
         robust_units_sold |-> Units(clamped),
         robust_sample_size |-> Len(clamped),
         typical_price_30d |-> Null,
         price_p90_30d |-> Null,
         is_low_confidence |-> Len(clamped) < MinRobustSample]

\* ------------------------------------------------------------------------
\* SpecDay: one call of upsertDailyStats on one day's sales
\* ------------------------------------------------------------------------

MaxSales == 6

\* <<price per unit, quantity>> of the sales a day is drawn from.
SaleTypes ==
    << <<1, 1>>, <<2, 1>>, <<9, 1>>, <<9, 3>>, <<30, 1>>,
       <<1000, 1>>, <<1000, 2>>, <<25000, 1>> >>

\* typical_price_30d (times ten) on the row of the key before the call:
\* null, or what a backfill wrote from the rows of the days before. The
\* call does not read it.
KeyAnchors == {Null, Some(10000)}

\* The listings snapshots (quantity per listing) a call can see.
ListingSnapshots == {<<>>, <<3, 4>>}

\* Non-decreasing index sequences of length k over lo..Len(SaleTypes): one
\* per multiset of sales (the day's figures do not depend on the order).
RECURSIVE MonoSeqs(_, _)
MonoSeqs(k, lo) ==
    IF k = 0 THEN {<<>>}
    ELSE UNION {{<<t>> \o rest : rest \in MonoSeqs(k - 1, t)} : t \in lo..Len(SaleTypes)}

MkSale(t, ts) ==
    [pricePerUnit |-> SaleTypes[t][1], quantity |-> SaleTypes[t][2], timestamp |-> ts]

InitDay ==
    /\ pc = "ready"
    /\ IdleRank
    /\ IdleTable
    /\ IdleAnchor
    /\ IdleMetrics
    /\ IdleStats
    /\ IdleFetch
    /\ \E k \in 0..MaxSales : \E idx \in MonoSeqs(k, 1) :
          recentHistory = [i \in 1..k |-> MkSale(idx[i], 0)]
    /\ verdicts = <<>>
    /\ dailyRow = Null
    /\ keyAnchor \in KeyAnchors

\* upsertDailyStats on the window's sales and a listings snapshot.
UpsertDay ==
    /\ pc = "ready"
    /\ \E listings \in ListingSnapshots :
          dailyRow' = Some(DailyStats(recentHistory, listings))
    /\ verdicts' = Verdicts(recentHistory)
    /\ pc' = "done"
    /\ UNCHANGED statVars
    /\ UNCHANGED fetchVars
    /\ UNCHANGED <<recentHistory, keyAnchor, rankVars, tableVars, anchorVars, metricVars>>

NextDay == UpsertDay

SpecDay == InitDay /\ [][NextDay]_vars

\* ------------------------------------------------------------------------
\* backfill-anchors.ts: the 30-day anchors. The anchor columns are carried
\* times ten (a median can end in .5, a 90th percentile in any tenth).
\* ------------------------------------------------------------------------

BackfillCutoffDays == 60
AnchorWindowDays == 30

\* median of backfill-anchors.ts, times ten: null for an empty list.
\* The mutant answers an empty list with the 0 of the other median.
AnchorMedianZero10(values) == Some(5 * Median2(values))

AnchorMedian10(values) ==
    IF values = <<>> THEN Null ELSE Some(5 * Median2(values))

\* The mutant reads the ranks off the caller's array as it came.
PercentileUnsorted(values, p10) ==
    LET idx10 == (Len(values) - 1) * p10
        lower == idx10 \div 10
        frac10 == idx10 % 10
        upper == IF frac10 = 0 THEN lower ELSE lower + 1
    IN  IF values = <<>> THEN Null
        ELSE Some(10 * values[lower + 1]
                  + (values[upper + 1] - values[lower + 1]) * frac10)

\* percentile(values, p) for p = p10 / 10, times ten: linear interpolation
\* at the fractional rank idx = (n - 1) * p between sorted[floor(idx)] and
\* sorted[ceil(idx)]; null for an empty list.
PercentileX10(values, p10) ==
    LET sorted == SortAsc(values)
        idx10 == (Len(sorted) - 1) * p10
        lower == idx10 \div 10
        frac10 == idx10 % 10
        upper == IF frac10 = 0 THEN lower ELSE lower + 1
    IN  IF values = <<>> THEN Null
        ELSE Some(10 * sorted[lower + 1]
                  + (sorted[upper + 1] - sorted[lower + 1]) * frac10)

\* percentile(windowPrices, 0.9), times ten.
Percentile90x10(values) == PercentileX10(values, 9)

\* The mutant takes avg_price whatever robust_avg_price holds.
AvgPriceOnly(row) == row.avg_price

\* prev.robust_avg_price ?? prev.avg_price
RepresentativePrice(row) ==
    IF row.robust_avg_price # Null THEN Val(row.robust_avg_price) ELSE row.avg_price

\* The rows of a set, ascending by stat_date (one row per date and key).
RECURSIVE ByDate(_)
ByDate(rows) ==
    IF rows = {} THEN <<>>
    ELSE LET first == CHOOSE r \in rows : \A o \in rows : r.stat_date <= o.stat_date
         IN  <<first>> \o ByDate(rows \ {first})

\* The mutant lets the row's own day into its window (j <= i).
WindowWithOwnDay(groupRows, i) ==
    LET js == {j \in 1..i :
                 /\ groupRows[i].stat_date - groupRows[j].stat_date <= AnchorWindowDays
                 /\ RepresentativePrice(groupRows[j]) > 0}
    IN  [k \in 1..Cardinality(js) |->
            RepresentativePrice(ByDate({groupRows[j] : j \in js})[k])]

\* windowPrices of groupRows[i]: the earlier rows at most 30 days older whose
\* representative price is positive.
WindowPrices(groupRows, i) ==
    LET js == {j \in 1..(i - 1) :
                 /\ groupRows[i].stat_date - groupRows[j].stat_date <= AnchorWindowDays
                 /\ RepresentativePrice(groupRows[j]) > 0}
    IN  [k \in 1..Cardinality(js) |->
            RepresentativePrice(ByDate({groupRows[j] : j \in js})[k])]

\* The rows the run fetches: stat_date >= today - 60, ascending by date.
FetchedRows(rows, today) ==
    ByDate({r \in rows : r.stat_date >= today - BackfillCutoffDays})

\* The rows after a backfill run at `today`: each fetched row gets its
\* anchors rewritten (upsert on id), the others are left as they are.
BackfillAnchors(rows, today) ==
    LET groupRows == FetchedRows(rows, today)
        updated == {[groupRows[i] EXCEPT
                        !.typical_price_30d = AnchorMedian10(WindowPrices(groupRows, i)),
                        !.price_p90_30d = Percentile90x10(WindowPrices(groupRows, i))]
                    : i \in 1..Len(groupRows)}
    IN  {r \in rows : r.stat_date < today - BackfillCutoffDays} \cup updated

\* ------------------------------------------------------------------------
\* SpecTable: the ingestion clock, upsertDailyStats and the backfill on the
\* stored rows of one (item, world)
\* ------------------------------------------------------------------------

TicksPerDay == 2
MaxTicks == 2
MaxHistory == 2

\* The sale types of this specification, as indexes into SaleTypes.
TableSaleTypes == {3, 6}

\* today.setHours(0, 0, 0, 0); toISOString().split('T')[0] (server in UTC)
StatDate(t) == t \div TicksPerDay

\* entry.timestamp * 1000 >= Date.now() - 24 h
RecentHistory(entries, t) ==
    SelectSeq(entries, LAMBDA e : e.timestamp >= t - TicksPerDay)

RowsOfDate(rows, statDate) == {r \in rows : r.stat_date = statDate}

NextRowId(rows) == Cardinality(rows) + 1

\* The stored row: the generated id, the key, updated_at and the columns.
StoredRow(id, statDate, stats, t) ==
    [id |-> id, stat_date |-> statDate, updated_at |-> t] @@ stats

\* The mutant inserts without looking for the key.
InsertRow(rows, statDate, stats, t) ==
    rows \cup {StoredRow(NextRowId(rows), statDate, stats, t)}

\* The mutant skips a day without sales.
UpsertUnlessEmpty(rows, statDate, stats, t) ==
    IF stats.units_sold = 0 THEN rows
    ELSE IF RowsOfDate(rows, statDate) = {}
    THEN rows \cup {StoredRow(NextRowId(rows), statDate, stats, t)}
    ELSE {IF r.stat_date = statDate THEN StoredRow(r.id, statDate, stats, t) ELSE r
          : r \in rows}

\* upsert(..., { onConflict: 'item_id,world_id,stat_date' }): the row of the
\* key is overwritten in the columns given, and inserted when there is none.
UpsertRow(rows, statDate, stats, t) ==
    IF RowsOfDate(rows, statDate) = {}
    THEN rows \cup {StoredRow(NextRowId(rows), statDate, stats, t)}
    ELSE {IF r.stat_date = statDate THEN StoredRow(r.id, statDate, stats, t) ELSE r
          : r \in rows}

InitTable ==
    /\ pc = "ready"
    /\ IdleRank
    /\ IdleDay
    /\ IdleTable
    /\ IdleAnchor
    /\ IdleMetrics
    /\ IdleStats
    /\ IdleFetch

\* A sale is recorded by the market and shows in the recent history.
Sale ==
    /\ Len(history) < MaxHistory
    /\ \E t \in TableSaleTypes : history' = Append(history, MkSale(t, now))
    /\ UNCHANGED statVars
    /\ UNCHANGED fetchVars
    /\ UNCHANGED <<pc, rankVars, dayVars, anchorVars, metricVars, now, table, lastCall, callParity>>

Tick ==
    /\ now < MaxTicks
    /\ now' = now + 1
    /\ UNCHANGED statVars
    /\ UNCHANGED fetchVars
    /\ UNCHANGED <<pc, rankVars, dayVars, anchorVars, metricVars, history, table, lastCall, callParity>>

\* upsertDailyStats(itemId, worldId, marketData) at the current clock.
UpsertDailyStats ==
    /\ \E listings \in ListingSnapshots :
          LET recent == RecentHistory(history, now)
              statDate == StatDate(now)
              stats == DailyStats(recent, listings)
              stored == RowsOfDate(table, statDate)
          IN  /\ table' = UpsertRow(table, statDate, stats, now)
              /\ lastCall' =
                    [now |-> now, recentHistory |-> recent, listings |-> listings,
                     verdicts |-> Verdicts(recent),
                     storedAnchor |-> IF stored = {} THEN Null
                                      ELSE (CHOOSE r \in stored : TRUE).typical_price_30d,
                     statDate |-> statDate, row |-> Some(stats),
                     \* the call repeats the one before it: same clock, same
                     \* sale records, same listings
                     repeat |-> /\ lastCall.row # Null
                                /\ lastCall.now = now
                                /\ lastCall.recentHistory = recent
                                /\ lastCall.listings = listings,
                     prevRow |-> lastCall.row,
                     rowsBefore |-> Cardinality(table)]
    /\ callParity' = ~callParity
    /\ UNCHANGED statVars
    /\ UNCHANGED fetchVars
    /\ UNCHANGED <<pc, rankVars, dayVars, anchorVars, metricVars, now, history>>

\* A run of scripts/backfill-anchors.ts.
Backfill ==
    /\ table # {}
    /\ table' = BackfillAnchors(table, StatDate(now))
    /\ UNCHANGED statVars
    /\ UNCHANGED fetchVars
    /\ UNCHANGED <<pc, rankVars, dayVars, anchorVars, metricVars, now, history, lastCall, callParity>>

NextTable == Sale \/ Tick \/ UpsertDailyStats \/ Backfill

SpecTable == InitTable /\ [][NextTable]_vars

\* ------------------------------------------------------------------------
\* SpecAnchor: one backfill run over two histories of one (item, world)
\* that agree on every row dated before anchorDay
\* ------------------------------------------------------------------------

MaxEdits == 2

\* The stat_dates a history can have rows on: 5 is exactly 30 days before
\* 35 and 31 days before 36; 0 is more than 30 days before both; 20 is
\* inside both windows.
AnchorDates == {0, 5, 20, 35, 36}

AnchorDays == {35, 36}

\* The days a backfill runs on: its fetch cutoff is 60 days earlier.
BackfillRunDays == {36, 66, 96}

\* <<robust_avg_price, avg_price>> of a stored row.
PriceProfiles ==
    << <<Null, 0>>, <<Null, 200>>, <<Some(100), 120>>, <<Some(300), 900>> >>

MkStatRow(d, p) ==
    [id |-> d + 1, stat_date |-> d,
     robust_avg_price |-> PriceProfiles[p][1], avg_price |-> PriceProfiles[p][2],
     typical_price_30d |-> Null, price_p90_30d |-> Null]

InitAnchor ==
    /\ pc = "ready"
    /\ IdleRank
    /\ IdleDay
    /\ IdleTable
    /\ IdleMetrics
    /\ IdleStats
    /\ IdleFetch
    /\ anchorDay \in AnchorDays
    /\ \E f \in [AnchorDates -> 0..Len(PriceProfiles)] :
          /\ f[anchorDay] # 0
          /\ historyA = {MkStatRow(d, f[d]) : d \in {x \in AnchorDates : f[x] # 0}}
    /\ historyB = historyA
    /\ edits = 0
    /\ anchoredA = {}
    /\ anchoredB = {}
    /\ backfillDay = 0

\* historyB gets different data on anchorDay, or a row dated later is
\* written, rewritten or removed.
EditLater ==
    /\ pc = "ready"
    /\ edits < MaxEdits
    /\ \E d \in {x \in AnchorDates : x >= anchorDay} :
       \E p \in 0..Len(PriceProfiles) :
          /\ d = anchorDay => p # 0
          /\ historyB' = {r \in historyB : r.stat_date # d}
                            \cup (IF p = 0 THEN {} ELSE {MkStatRow(d, p)})
    /\ edits' = edits + 1
    /\ UNCHANGED statVars
    /\ UNCHANGED fetchVars
    /\ UNCHANGED <<pc, rankVars, dayVars, tableVars, metricVars,
                   anchorDay, historyA, anchoredA, anchoredB, backfillDay>>

\* scripts/backfill-anchors.ts main, run on each history on the same day.
BackfillBoth ==
    /\ pc = "ready"
    /\ \E today \in BackfillRunDays :
          /\ anchoredA' = BackfillAnchors(historyA, today)
          /\ anchoredB' = BackfillAnchors(historyB, today)
          /\ backfillDay' = today
    /\ pc' = "done"
    /\ UNCHANGED statVars
    /\ UNCHANGED fetchVars
    /\ UNCHANGED <<rankVars, dayVars, tableVars, metricVars,
                   anchorDay, historyA, historyB, edits>>

NextAnchor == EditLater \/ BackfillBoth

SpecAnchor == InitAnchor /\ [][NextAnchor]_vars

\* ------------------------------------------------------------------------
\* The statistics helpers called on a caller's array: median of
\* market-data.ts (doubled, 0 on an empty list), median of
\* backfill-anchors.ts (times ten, null on an empty list) and percentile of
\* backfill-anchors.ts (times ten, null on an empty list).
\* ------------------------------------------------------------------------

MaxValues == 4

StatValues == {10, 20, 30, 90}

\* p in tenths: 0, 0.1, ..., 1
PercentileRanks == 0..10

\* const sorted = [...values].sort(...): the spread makes a copy and the sort
\* reorders the copy, so the caller's array is what it was.
CallerArrayAfter(values) == values

InitStats ==
    /\ pc = "ready"
    /\ IdleRank
    /\ IdleDay
    /\ IdleTable
    /\ IdleAnchor
    /\ IdleMetrics
    /\ IdleFetch
    /\ callerValues \in SeqsUpTo(StatValues, MaxValues)
    /\ statCall = NoStatCall

\* median(values) of market-data.ts
CallMedian ==
    /\ pc = "ready"
    /\ statCall' = [fn |-> "median", p10 |-> 0, values |-> callerValues,
                    result |-> Median2(callerValues)]
    /\ callerValues' = CallerArrayAfter(callerValues)
    /\ pc' = "done"
    /\ UNCHANGED <<rankVars, dayVars, tableVars, anchorVars, metricVars, fetchVars>>

\* median(values) of backfill-anchors.ts
CallAnchorMedian ==
    /\ pc = "ready"
    /\ statCall' = [fn |-> "anchorMedian", p10 |-> 0, values |-> callerValues,
                    result |-> AnchorMedian10(callerValues)]
    /\ callerValues' = CallerArrayAfter(callerValues)
    /\ pc' = "done"
    /\ UNCHANGED <<rankVars, dayVars, tableVars, anchorVars, metricVars, fetchVars>>

\* percentile(values, p) of backfill-anchors.ts
CallPercentile ==
    /\ pc = "ready"
    /\ \E p10 \in PercentileRanks :
          statCall' = [fn |-> "percentile", p10 |-> p10, values |-> callerValues,
                       result |-> PercentileX10(callerValues, p10)]
    /\ callerValues' = CallerArrayAfter(callerValues)
    /\ pc' = "done"
    /\ UNCHANGED <<rankVars, dayVars, tableVars, anchorVars, metricVars, fetchVars>>

NextStats == CallMedian \/ CallAnchorMedian \/ CallPercentile

SpecStats == InitStats /\ [][NextStats]_vars

\* ------------------------------------------------------------------------
\* SpecFetch: concurrent calls of rateLimitedFetch (XIVAPI, behind the token
\* bucket limiter) or of fetchWithRetry (Universalis), each made with the
\* default number of retries. The two clients share no state. A call in
\* progress is a record; the calls in progress are a bag, since calls in
\* the same position are interchangeable. A call that has returned or
\* thrown leaves the bag and is counted.
\* ------------------------------------------------------------------------

MAX_RETRIES == 3
MAX_CONCURRENT == 5
RATE_LIMIT_RPS == 20

\* The calls started together.
MaxCallers == 6

\* refill(): the whole tokens the time gone by since the last refill adds to
\* a bucket holding bucket tokens, for an elapsed time of nothing, of the
\* 50 ms of one wait, and of a second or more; the bucket is capped at
\* RATE_LIMIT_RPS.
ElapsedTokens == {0, 1, RATE_LIMIT_RPS}

Refill(bucket, elapsed) ==
    IF bucket + elapsed > RATE_LIMIT_RPS THEN RATE_LIMIT_RPS ELSE bucket + elapsed

\* What one fetch attempt ends with: an OK response, a 429, another non-OK
\* response, or a rejected fetch (network error).
Outcomes == {"ok", "429", "nonOk", "networkError"}

\* A call as it is made: retries = MAX_RETRIES, nothing fetched yet.
\* attempts counts the fetch calls made on its behalf, held the requests
\* it has acquired and not released.
NewCall(api) ==
    [api |-> api, pc |-> "start", retries |-> MAX_RETRIES, attempts |-> 0,
     held |-> 0]

\* An attempt ends in the catch block after a rejected fetch, and after a
\* non-OK response unless it is a 429 with retries left.
Caught(outcome, retries) ==
    \/ outcome = "networkError"
    \/ outcome = "nonOk"
    \/ outcome = "429" /\ retries = 0

\* The catch block releasing whatever the released flag says.
ReleasesIgnoringFlag(outcome, retries) ==
    LET inTry == IF outcome = "networkError" THEN 0 ELSE 1
        inCatch == IF Caught(outcome, retries) THEN 1 ELSE 0
    IN  inTry + inCatch

\* rateLimitedFetch: the release() calls of one attempt. An OK and a non-OK
\* response release once in the try block, the latter setting released;
\* the catch block releases when released is false.
Releases(outcome, retries) ==
    LET inTry == IF outcome = "networkError" THEN 0 ELSE 1
        released == outcome \in {"429", "nonOk"}
        inCatch == IF Caught(outcome, retries) /\ ~released THEN 1 ELSE 0
    IN  inTry + inCatch

\* Both wrappers, after an attempt: an OK response is returned; a 429 with
\* retries left recurses (return without await, so the outer catch is out
\* of play); any other non-OK response throws into the catch block, as a
\* rejected fetch does, and the catch block recurses with retries - 1 when
\* retries are left and rethrows otherwise.
AfterAttempt(outcome, retries) ==
    IF outcome = "ok" THEN "returned"
    ELSE IF outcome = "429" /\ retries > 0 THEN "retry"
    ELSE IF retries > 0 THEN "retry"
    ELSE "thrown"

Replace(calls, old, new) == (calls (-) SetToBag({old})) (+) SetToBag({new})

\* The calls after one of them has settled an attempt.
Settle(calls, call, outcome, released) ==
    IF AfterAttempt(outcome, call.retries) = "retry"
    THEN Replace(calls, call,
                 [call EXCEPT !.pc = "start", !.retries = @ - 1,
                              !.held = @ - released])
    ELSE calls (-) SetToBag({call})

RECURSIVE Copies(_, _)
Copies(call, n) ==
    IF n = 0 THEN EmptyBag ELSE SetToBag({call}) (+) Copies(call, n - 1)

\* rateLimiter = new TokenBucketRateLimiter(20, 20): a full bucket.
InitFetch ==
    /\ pc = "ready"
    /\ IdleRank
    /\ IdleDay
    /\ IdleTable
    /\ IdleAnchor
    /\ IdleMetrics
    /\ IdleStats
    /\ \E api \in {"xivapi", "universalis"} : \E n \in 1..MaxCallers :
          fetchCalls = Copies(NewCall(api), n)
    /\ tokens = RATE_LIMIT_RPS
    /\ activeRequests = 0
    /\ returned = 0
    /\ thrown = 0

\* acquire(), one pass of its loop that gets through: refill() adds the
\* tokens of the time gone by, and with a token and
\* fewer than MAX_CONCURRENT active requests the call takes one and goes on
\* to fetch.
Acquire ==
    \E call \in BagToSet(fetchCalls) :
    \E elapsed \in ElapsedTokens :
        /\ call.api = "xivapi"
        /\ call.pc = "start"
        /\ Refill(tokens, elapsed) >= 1
        /\ activeRequests < MAX_CONCURRENT
        /\ tokens' = Refill(tokens, elapsed) - 1
        /\ activeRequests' = activeRequests + 1
        /\ fetchCalls' = Replace(fetchCalls, call,
                             [call EXCEPT !.pc = "fetch", !.held = @ + 1,
                                          !.attempts = @ + 1])
        /\ UNCHANGED <<returned, thrown>>
        /\ UNCHANGED <<pc, rankVars, dayVars, tableVars, anchorVars, metricVars, statVars>>

\* acquire(), a pass that has to wait 50 ms: refill() has run, and there
\* is no token or MAX_CONCURRENT requests are active.
AcquireWait ==
    \E call \in BagToSet(fetchCalls) :
    \E elapsed \in ElapsedTokens :
        /\ call.api = "xivapi"
        /\ call.pc = "start"
        /\ activeRequests >= MAX_CONCURRENT \/ Refill(tokens, elapsed) < 1
        /\ tokens' = Refill(tokens, elapsed)
        /\ UNCHANGED <<fetchCalls, activeRequests, returned, thrown>>
        /\ UNCHANGED <<pc, rankVars, dayVars, tableVars, anchorVars, metricVars, statVars>>

\* rateLimitedFetch from the settled fetch to the return, the throw or the
\* recursive call.
RateLimitedFetchSettles ==
    \E call \in BagToSet(fetchCalls) : \E outcome \in Outcomes :
        /\ call.api = "xivapi"
        /\ call.pc = "fetch"
        /\ LET released == Releases(outcome, call.retries)
               after == AfterAttempt(outcome, call.retries)
           IN  /\ activeRequests' = activeRequests - released
               /\ fetchCalls' = Settle(fetchCalls, call, outcome, released)
               /\ returned' = returned + (IF after = "returned" THEN 1 ELSE 0)
               /\ thrown' = thrown + (IF after = "thrown" THEN 1 ELSE 0)
        /\ UNCHANGED tokens
        /\ UNCHANGED <<pc, rankVars, dayVars, tableVars, anchorVars, metricVars, statVars>>

\* fetchWithRetry calls fetch.
FetchWithRetryStarts ==
    \E call \in BagToSet(fetchCalls) :
        /\ call.api = "universalis"
        /\ call.pc = "start"
        /\ fetchCalls' = Replace(fetchCalls, call,
                             [call EXCEPT !.pc = "fetch", !.attempts = @ + 1])
        /\ UNCHANGED <<tokens, activeRequests, returned, thrown>>
        /\ UNCHANGED <<pc, rankVars, dayVars, tableVars, anchorVars, metricVars, statVars>>

\* fetchWithRetry from the settled fetch to the return, the throw or the
\* recursive call.
FetchWithRetrySettles ==
    \E call \in BagToSet(fetchCalls) : \E outcome \in Outcomes :
        /\ call.api = "universalis"
        /\ call.pc = "fetch"
        /\ LET after == AfterAttempt(outcome, call.retries)
           IN  /\ fetchCalls' = Settle(fetchCalls, call, outcome, 0)
               /\ returned' = returned + (IF after = "returned" THEN 1 ELSE 0)
               /\ thrown' = thrown + (IF after = "thrown" THEN 1 ELSE 0)
        /\ UNCHANGED <<tokens, activeRequests>>
        /\ UNCHANGED <<pc, rankVars, dayVars, tableVars, anchorVars, metricVars, statVars>>

NextFetch ==
    \/ Acquire
    \/ AcquireWait
    \/ RateLimitedFetchSettles
    \/ FetchWithRetryStarts
    \/ FetchWithRetrySettles

\* The event loop runs every timer and continuation that is due, and every
\* fetch settles: a step that can be taken is taken.
SpecFetch == InitFetch /\ [][NextFetch]_vars /\ WF_vars(NextFetch)

\* ------------------------------------------------------------------------
\* The head of the /api/top-items handler (query, aggregation by item,
\* threshold filters) and the handler built on calculateMetrics and
\* filterItems
\* ------------------------------------------------------------------------

QUERY_LIMIT == 50000
MIN_PRICE_DB == 50
RobustRowMinSample == 5
GuardCapFactor == 20

\* cutoffDate.setDate(cutoffDate.getDate() - days), as a date string
CutoffDate(today, days) == today - days

\* The conditions the route puts on a row in its query.
RouteQueryMatches(stat, f, today) ==
    /\ stat.stat_date >= CutoffDate(today, f.days)
    /\ stat.units_sold > 0
    /\ stat.avg_price > MIN_PRICE_DB
    /\ f.categories # {} => stat.category \in f.categories
    /\ IF f.craftableOnly THEN stat.is_craftable
       ELSE IF f.nonCraftableOnly THEN ~stat.is_craftable
       ELSE TRUE

\* The orders a query can return a set of rows in under
\* .order('total_revenue', { ascending: false }): rows of equal revenue
\* come in an order the database picks.
ByRevenueDesc(rows) ==
    {q \in [1..Cardinality(rows) -> rows] :
        /\ \A i, j \in 1..Cardinality(rows) : i # j => q[i] # q[j]
        /\ \A i, j \in 1..Cardinality(rows) :
              i < j => q[i].total_revenue >= q[j].total_revenue}

\* .order('stat_date', { ascending: false })
ByDateDesc(rows) ==
    {q \in [1..Cardinality(rows) -> rows] :
        /\ \A i, j \in 1..Cardinality(rows) : i # j => q[i] # q[j]
        /\ \A i, j \in 1..Cardinality(rows) :
              i < j => q[i].stat_date >= q[j].stat_date}

\* .limit(QUERY_LIMIT)
Limit(q, n) == SubSeq(q, 1, IF Len(q) < n THEN Len(q) ELSE n)

HasRobust(stat) ==
    /\ stat.robust_sample_size >= RobustRowMinSample
    /\ stat.robust_units_sold > 0
    /\ stat.robust_avg_price # Null

UseRobust(stat, mode) ==
    IF mode = "robust" THEN HasRobust(stat)
    ELSE IF mode = "raw" THEN FALSE
    ELSE HasRobust(stat)

\* anchor * 20, or null: typical_price_30d is stored times ten, and a
\* stored 0 counts as no anchor.
GuardCap(stat) ==
    IF stat.typical_price_30d = Null \/ Val(stat.typical_price_30d) = 0
    THEN Null
    ELSE Some((GuardCapFactor * Val(stat.typical_price_30d)) \div 10)

\* chosenUnits, chosenRevenue and chosenAvg of a row.
Chosen(stat, mode) ==
    LET useRobust == UseRobust(stat, mode)
        guardCap == GuardCap(stat)
        units == IF useRobust THEN stat.robust_units_sold ELSE stat.units_sold
        revenue == IF useRobust THEN stat.robust_total_revenue ELSE stat.total_revenue
        avg == IF useRobust
               THEN (IF stat.robust_avg_price = Null THEN 0
                     ELSE Val(stat.robust_avg_price))
               ELSE stat.avg_price
        capped == ~useRobust /\ guardCap # Null
    IN  [units |-> units,
         revenue |-> IF capped /\ revenue > Val(guardCap) * units
                     THEN Val(guardCap) * units ELSE revenue,
         avg |-> IF capped /\ avg > Val(guardCap) THEN Val(guardCap) ELSE avg]

\* aggregatedItems.set(key, {...}): the aggregate a key starts from.
NewAggregate(stat) ==
    [itemId |-> stat.item_id, category |-> stat.category,
     isCraftable |-> stat.is_craftable,
     totalUnitsSold |-> 0, totalRevenue |-> 0, rawRevenue |-> 0,
     robustEligible |-> HasRobust(stat),
     priceSum |-> 0, priceCount |-> 0,
     minPrice |-> Null, maxPrice |-> Null,
     latestActiveListings |-> stat.active_listings,
     materialCost |-> stat.material_cost]

\* The body of the loop over statsData for a row that is not skipped.
AddStat(agg, stat, mode) ==
    LET c == Chosen(stat, mode)
    IN  [agg EXCEPT
            !.totalUnitsSold = @ + c.units,
            !.totalRevenue = @ + c.revenue,
            !.rawRevenue = @ + stat.total_revenue,
            !.robustEligible = @ \/ HasRobust(stat),
            !.priceSum = IF c.avg > 0 THEN @ + c.avg ELSE @,
            !.priceCount = IF c.avg > 0 THEN @ + 1 ELSE @,
            !.minPrice = IF stat.min_price = Null THEN @
                         ELSE IF @ = Null \/ Val(stat.min_price) < Val(@)
                              THEN stat.min_price ELSE @,
            !.maxPrice = IF stat.max_price = Null THEN @
                         ELSE IF @ = Null \/ Val(stat.max_price) > Val(@)
                              THEN stat.max_price ELSE @,
            !.latestActiveListings = IF stat.active_listings > 0
                                     THEN stat.active_listings ELSE @]

\* for (const stat of statsData): the aggregates in the order of insertion
\* into the Map (the key is the item: one data center, one world).
RECURSIVE AggregateStats(_, _, _)
AggregateStats(statsData, mode, aggs) ==
    IF statsData = <<>> THEN aggs
    ELSE LET stat == Head(statsData)
             known == \E k \in 1..Len(aggs) : aggs[k].itemId = stat.item_id
             withKey == IF known THEN aggs ELSE Append(aggs, NewAggregate(stat))
             at == CHOOSE k \in 1..Len(withKey) : withKey[k].itemId = stat.item_id
         IN  IF mode = "robust" /\ ~HasRobust(stat)
             THEN AggregateStats(Tail(statsData), mode, aggs)
             ELSE AggregateStats(Tail(statsData), mode,
                                 [withKey EXCEPT ![at] = AddStat(@, stat, mode)])

\* The metrics the route computes from an aggregate.
RouteMetrics(agg, days) ==
    LET avgPrice == IF agg.priceCount > 0 THEN RoundDiv(agg.priceSum, agg.priceCount)
                    ELSE 0
    IN  [id |-> agg.itemId, category |-> agg.category, isCraftable |-> agg.isCraftable,
         unitsSold |-> agg.totalUnitsSold, days |-> days,
         totalRevenue |-> agg.totalRevenue, avgPrice |-> avgPrice,
         minPrice |-> agg.minPrice, maxPrice |-> agg.maxPrice,
         profitPerUnit |-> ProfitPerUnit(avgPrice, agg.materialCost),
         activeListings |-> agg.latestActiveListings]

\* The four threshold tests, on an item's metrics; a threshold that is
\* undefined, null (maxListings), 0 or NaN is not applied.
PassesThresholds(item, f) ==
    /\ ~ (/\ f.minSalesVelocity # Null /\ Val(f.minSalesVelocity) # 0
          /\ item.unitsSold < Val(f.minSalesVelocity) * item.days)
    /\ ~ (/\ f.minRevenue # Null /\ Val(f.minRevenue) # 0
          /\ item.totalRevenue < Val(f.minRevenue))
    /\ ~ (f.maxListings # Null /\ item.activeListings > Val(f.maxListings))
    /\ ~ (/\ f.minPrice # Null /\ Val(f.minPrice) # 0
          /\ item.avgPrice < Val(f.minPrice))

\* calculateMetrics(dailyStats, timeframe, itemId) with the item's fields
\* the handler puts next to the metrics.
calculateMetrics(dailyStats, days) ==
    LET unitsSold == SumSeq([i \in 1..Len(dailyStats) |-> dailyStats[i].units_sold])
        totalRevenue == SumSeq([i \in 1..Len(dailyStats) |-> dailyStats[i].total_revenue])
        avgPrice == IF unitsSold > 0 THEN RoundDiv(totalRevenue, unitsSold) ELSE 0
        allMinPrices == SelectSeq([i \in 1..Len(dailyStats) |-> dailyStats[i].min_price],
                                  LAMBDA m : m # Null)
        allMaxPrices == SelectSeq([i \in 1..Len(dailyStats) |-> dailyStats[i].max_price],
                                  LAMBDA m : m # Null)
    IN  [id |-> dailyStats[1].item_id, category |-> dailyStats[1].category,
         isCraftable |-> dailyStats[1].is_craftable,
         unitsSold |-> unitsSold, days |-> days,
         totalRevenue |-> totalRevenue, avgPrice |-> avgPrice,
         minPrice |-> IF allMinPrices = <<>> THEN Null
                      ELSE Some(MinOf([i \in 1..Len(allMinPrices) |-> Val(allMinPrices[i])])),
         maxPrice |-> IF allMaxPrices = <<>> THEN Null
                      ELSE Some(MaxOf([i \in 1..Len(allMaxPrices) |-> Val(allMaxPrices[i])])),
         profitPerUnit |-> ProfitPerUnit(avgPrice, dailyStats[1].material_cost),
         activeListings |-> dailyStats[1].active_listings]

\* itemStatsMap: the item ids in the order of their first row.
RECURSIVE GroupKeys(_, _)
GroupKeys(statsData, keys) ==
    IF statsData = <<>> THEN keys
    ELSE GroupKeys(Tail(statsData),
                   IF \E k \in 1..Len(keys) : keys[k] = Head(statsData).item_id
                   THEN keys ELSE Append(keys, Head(statsData).item_id))

\* filterItems(items, filters)
filterItems(items, f) ==
    SelectSeq(items, LAMBDA item :
        /\ f.categories # {} => item.category \in f.categories
        /\ ~ (f.craftableOnly /\ ~item.isCraftable)
        /\ ~ (f.nonCraftableOnly /\ item.isCraftable)
        /\ PassesThresholds(item, f))

\* ------------------------------------------------------------------------
\* SpecMetrics: stored daily rows -> query -> per-item metrics -> filters
\* ------------------------------------------------------------------------

MaxStatRows == 2

\* The items table joined with recipes (material_cost 0: no recipe).
ItemCatalog ==
    << [category |-> "Meal", is_craftable |-> TRUE, material_cost |-> 200],
       [category |-> "Ore", is_craftable |-> FALSE, material_cost |-> 0] >>

\* n sales of one price and quantity.
SalesOf(n, price, quantity) ==
    [i \in 1..n |-> [pricePerUnit |-> price, quantity |-> quantity, timestamp |-> 0]]

\* The days behind the stored rows, as <<sales, listings, anchor>>: two days
\* with five sales, a day without sales, a day of a cheap item, and a
\* two-sale day whose row a backfill gave the anchor 30.
ProfileDays ==
    << <<SalesOf(5, 10000, 2), <<3, 4>>, Null>>,
       <<SalesOf(5, 12500, 4), <<>>, Null>>,
       <<<<>>, <<3, 4, 1>>, Null>>,
       <<SalesOf(5, 40, 1), <<3>>, Null>>,
       <<SalesOf(2, 1000, 1), <<3, 4, 1>>, Some(300)>> >>

\* The column values of the stored rows, as upsertDailyStats and the
\* backfill write them.
StatProfiles ==
    [p \in 1..Len(ProfileDays) |->
        [DailyStats(ProfileDays[p][1], ProfileDays[p][2])
            EXCEPT !.typical_price_30d = ProfileDays[p][3],
                   !.price_p90_30d = ProfileDays[p][3]]]

MetricsToday == 8

\* Row dates: two days and zero days before MetricsToday.
MetricDates == {6, 8}

StatRowOf(item, d, p) ==
    [item_id |-> item, stat_date |-> d] @@ ItemCatalog[item] @@ StatProfiles[p]

\* The requests: every combination of a set and an unset value per filter.
Requests(modes, path) ==
    {[path |-> path, mode |-> m, days |-> days, categories |-> cats,
      craftableOnly |-> co, nonCraftableOnly |-> nco,
      minSalesVelocity |-> v, minRevenue |-> rev, maxListings |-> l, minPrice |-> mp] :
        m \in modes, days \in {1, 7}, cats \in {{}, {"Meal"}},
        co \in BOOLEAN, nco \in BOOLEAN,
        v \in {Null, Some(2)}, rev \in {Null, Some(1000)},
        l \in {Null, Some(1)}, mp \in {Null, Some(100)}}

InitMetrics ==
    /\ pc = "ready"
    /\ IdleRank
    /\ IdleDay
    /\ IdleTable
    /\ IdleAnchor
    /\ IdleStats
    /\ IdleFetch
    /\ \E keys \in SUBSET ((1..Len(ItemCatalog)) \X MetricDates) :
          /\ Cardinality(keys) <= MaxStatRows
          /\ \E g \in [keys -> 1..Len(StatProfiles)] :
                dailyItemStats = {StatRowOf(k[1], k[2], g[k]) : k \in keys}
    /\ filters = NoFilters
    /\ aggregatedItems = <<>>

\* route.ts GET, from the query to the end of the threshold filters.
GetItemsWithMetrics ==
    /\ pc = "ready"
    /\ \E f \in Requests({"auto", "robust", "raw"}, "route") :
       \E q \in ByRevenueDesc({r \in dailyItemStats :
                                  RouteQueryMatches(r, f, MetricsToday)}) :
          LET statsData == Limit(q, QUERY_LIMIT)
              aggs == AggregateStats(statsData, f.mode, <<>>)
              items == [i \in 1..Len(aggs) |-> RouteMetrics(aggs[i], f.days)]
          IN  /\ filters' = f
              /\ aggregatedItems' = aggs
              /\ itemsWithMetrics' =
                    SelectSeq(items, LAMBDA item : PassesThresholds(item, f))
    /\ pc' = "done"
    /\ UNCHANGED statVars
    /\ UNCHANGED fetchVars
    /\ UNCHANGED <<params, filteredItems, ranked, topItems, response,
                   dayVars, tableVars, anchorVars, dailyItemStats>>

\* The handler on the library: query, calculateMetrics per item, filterItems.
CheckItems ==
    /\ pc = "ready"
    /\ \E f \in Requests({"auto"}, "lib") :
       \E q \in ByDateDesc({r \in dailyItemStats :
                               r.stat_date >= CutoffDate(MetricsToday, f.days)}) :
          LET keys == GroupKeys(q, <<>>)
              items == [k \in 1..Len(keys) |->
                          calculateMetrics(
                              SelectSeq(q, LAMBDA r : r.item_id = keys[k]), f.days)]
          IN  /\ filters' = f
              /\ aggregatedItems' = items
              /\ itemsWithMetrics' = filterItems(items, f)
    /\ pc' = "done"
    /\ UNCHANGED statVars
    /\ UNCHANGED fetchVars
    /\ UNCHANGED <<params, filteredItems, ranked, topItems, response,
                   dayVars, tableVars, anchorVars, dailyItemStats>>

NextMetrics == GetItemsWithMetrics \/ CheckItems

SpecMetrics == InitMetrics /\ [][NextMetrics]_vars

\* ------------------------------------------------------------------------
\* Claims checked under SpecRank
\* ------------------------------------------------------------------------

ItemsOf(seq) == {seq[i] : i \in 1..Len(seq)}

PositionOf(seq, item) == CHOOSE k \in 1..Len(seq) : seq[k].id = item.id

ScoreOf(item) == getRankingValue(item, params.rankingMetric, params.path)

ScoreGeq(x, y) == y.inf \/ (~x.inf /\ x.num * y.den >= y.num * x.den)

ScoreEq(x, y) == ScoreGeq(x, y) /\ ScoreGeq(y, x)

BestToSellDone ==
    pc = "done" /\ params.path = "route" /\ params.rankingMetric = "bestToSell"

Sold(it) == it.unitsSold > 0 /\ it.totalRevenue > 0

StageSet1 ==
    {it \in ItemsOf(itemsWithMetrics) :
        Sold(it) /\ 5 * it.unitsSold >= it.days /\ it.avgPrice >= 200}

StageSet2 ==
    {it \in ItemsOf(itemsWithMetrics) : Sold(it) /\ 2 * it.unitsSold >= it.days}

StageSet3 == {it \in ItemsOf(itemsWithMetrics) : Sold(it)}

\* C1: in bestToSell mode the ranked list holds exactly the first non-empty
\* set among stage 1, stage 2, stage 3 and all filtered items, so it is
\* non-empty whenever an item passed the filter stage.
C1_BestToSellNeverEmpty ==
    BestToSellDone =>
        /\ itemsWithMetrics # <<>> => ranked # <<>>
        /\ ItemsOf(ranked) =
              IF StageSet1 # {} THEN StageSet1
              ELSE IF StageSet2 # {} THEN StageSet2
              ELSE IF StageSet3 # {} THEN StageSet3
              ELSE ItemsOf(itemsWithMetrics)

\* C1 witness: stage 1 is empty, a fallback stage supplied the result.
C1_Witness ==
    /\ BestToSellDone
    /\ Len(itemsWithMetrics) >= 2
    /\ StageSet1 = {}
    /\ StageSet2 = {}
    /\ ranked # <<>>

\* C2: after the sort the list is a reordering of the input, in
\* non-increasing score order, and items of equal score keep the relative
\* order they had in the input.
C2_SortedDescendingStable ==
    pc = "done" =>
        /\ Len(ranked) = Len(filteredItems)
        /\ ItemsOf(ranked) = ItemsOf(filteredItems)
        /\ \A i, j \in 1..Len(ranked) :
              i < j =>
                /\ ScoreGeq(ScoreOf(ranked[i]), ScoreOf(ranked[j]))
                /\ ScoreEq(ScoreOf(ranked[i]), ScoreOf(ranked[j])) =>
                      PositionOf(filteredItems, ranked[i])
                          < PositionOf(filteredItems, ranked[j])

\* C2 witness: a sort that moved items and met a tie.
C2_Witness ==
    /\ pc = "done"
    /\ Len(ranked) = 3
    /\ ranked # filteredItems
    /\ ScoreEq(ScoreOf(ranked[1]), ScoreOf(ranked[2]))
    /\ ~ScoreEq(ScoreOf(ranked[2]), ScoreOf(ranked[3]))

\* C3 (as claimed): a request with topN <= 0 ends in an error outcome.
C3_NonPositiveTopNIsError ==
    (pc = "done" /\ params.topN # NaN /\ Val(params.topN) <= 0) =>
        response.status >= 400

\* C4 (as claimed): under profit or roi no item with a null value is
\* ranked above an item with a non-null value.
C4_NullRanksLast ==
    (pc = "done" /\ params.rankingMetric \in {"profit", "roi"}) =>
        \A i, j \in 1..Len(ranked) :
            i < j => ~(ranked[i].profitPerUnit = Null /\ ranked[j].profitPerUnit # Null)

\* The claimed reliability bonus, times ten, from the item's units and days.
ClaimedBonus10(it) ==
    IF it.unitsSold >= 5 * it.days THEN 18
    ELSE IF it.unitsSold >= it.days THEN 15
    ELSE IF 2 * it.unitsSold >= it.days THEN 12
    ELSE 10

\* avg_price x sales_velocity x reliability_bonus as a fraction.
ClaimedScore(it) == Fin(it.avgPrice * it.unitsSold * ClaimedBonus10(it), 10 * it.days)

\* C18: the bestToSell score of an item is avg_price x sales_velocity x
\* reliability_bonus, with reliability_bonus 1.8 when velocity >= 5, 1.5 when
\* 1 <= velocity < 5, 1.2 when 0.5 <= velocity < 1 and 1.0 otherwise; the
\* bestToSell ranking is in descending order of that score.
C18_BestToSellScore ==
    BestToSellDone =>
        /\ \A i \in 1..Len(ranked) : ScoreEq(ScoreOf(ranked[i]), ClaimedScore(ranked[i]))
        /\ \A i, j \in 1..Len(ranked) :
              i < j => ScoreGeq(ClaimedScore(ranked[i]), ClaimedScore(ranked[j]))

\* C18 witness: an item selling exactly 5 a day (bonus 1.8) is ranked ahead
\* of an item of the 1.2 tier.
C18_Witness ==
    /\ BestToSellDone
    /\ Len(ranked) >= 2
    /\ ranked[1].unitsSold = 5 * ranked[1].days
    /\ ClaimedBonus10(ranked[1]) = 18
    /\ ClaimedBonus10(ranked[2]) = 12

\* ------------------------------------------------------------------------
\* Claims checked under SpecDay
\* ------------------------------------------------------------------------

DayDone == pc = "done" /\ dailyRow # Null

\* C10: on a day of fewer than 5 sales no sale is rejected by the
\* statistical ceiling: a sale is removed only by the anchor ceiling or by
\* the single-unit guard, and every other sale survives.
C10_NoStatCeilingBelowFive ==
    (DayDone /\ Len(recentHistory) < 5) =>
        \A i \in 1..Len(recentHistory) :
            LET ctx == DayContext(recentHistory)
                e == recentHistory[i]
            IN  /\ verdicts[i] # "stat"
                /\ verdicts[i] = "keep" <=>
                      ~AboveAnchorCeiling(e.pricePerUnit, ctx) /\ ~SingleUnitGuard(e, ctx)

\* C10 witness: four sales, none above anchor x 20, one above the IQR/MAD
\* bound, and all four survive.
C10_Witness ==
    /\ DayDone
    /\ Len(recentHistory) = 4
    /\ \A i \in 1..4 : verdicts[i] = "keep"
    /\ \E i \in 1..4 :
          AboveStatCeiling(recentHistory[i].pricePerUnit, DayContext(recentHistory))

\* The sales of the day that the filter kept.
KeptOfDay == KeepWhere(recentHistory, verdicts)

\* The bound of C11 with the day's median as the only anchor, which is what
\* upsertDailyStats clamps at.
ClampedAtTenMedians ==
    (DayDone /\ KeptOfDay # <<>>) =>
        LET med2 == DayContext(recentHistory).priceMedian2
        IN  /\ 2 * Val(Val(dailyRow).robust_avg_price) <= ClampFactor * med2
            /\ 2 * Val(dailyRow).robust_total_revenue
                  <= ClampFactor * med2 * Units(KeptOfDay)

\* A kept sale priced above ten medians: the clamp lowers its price.
ClampBites ==
    /\ DayDone
    /\ \E i \in 1..Len(KeptOfDay) :
          2 * KeptOfDay[i].pricePerUnit
              > ClampFactor * DayContext(recentHistory).priceMedian2

\* C12 (as claimed): a row written for a day with fewer than 5 surviving
\* sales has a null robust_avg_price and zero robust_total_revenue and
\* robust_units_sold.
C12_RobustNullBelowFive ==
    (DayDone /\ Len(KeptOfDay) < MinRobustSample) =>
        /\ Val(dailyRow).robust_avg_price = Null
        /\ Val(dailyRow).robust_total_revenue = 0
        /\ Val(dailyRow).robust_units_sold = 0

\* A written robust_avg_price is null or at least 1: sale prices are
\* positive, and so are their clamped values and the rounded median.
RobustPricePositive ==
    DayDone =>
        \/ Val(dailyRow).robust_avg_price = Null
        \/ Val(Val(dailyRow).robust_avg_price) >= 1

\* The survivors of stage 1, the anchor ceiling.
StageOneSurvivors ==
    LET ctx == DayContext(recentHistory)
    IN  SelectSeq(recentHistory, LAMBDA e : ~AboveAnchorCeiling(e.pricePerUnit, ctx))

\* The sales the statistical ceiling rejects when it works on the survivors
\* of stage 1: none with fewer than 5 survivors, otherwise those priced
\* above min(Q3 + 3 x IQR, median + 6 x MAD) of the survivors.
RejectedOnSurvivors(e) ==
    /\ ~AboveAnchorCeiling(e.pricePerUnit, DayContext(recentHistory))
    /\ Len(StageOneSurvivors) >= MinRobustSample
    /\ AboveStatCeiling(e.pricePerUnit, DayContext(StageOneSurvivors))

\* C22 (as claimed): the statistical ceiling is applied only when at least 5
\* sales survive stage 1, its Q1, Q3, median and MAD are computed from those
\* survivors, and it rejects exactly the sales priced above
\* min(Q3 + 3 x IQR, median + 6 x MAD), the MAD bound being infinite when
\* MAD = 0.
C22_StatCeilingOnSurvivors ==
    DayDone =>
        \A i \in 1..Len(recentHistory) :
            verdicts[i] = "stat" <=> RejectedOnSurvivors(recentHistory[i])

\* On a day where stage 1 rejects nothing the ceiling is the claimed one.
StatCeilingWhenAllSurvive ==
    (DayDone /\ Len(StageOneSurvivors) = Len(recentHistory)) =>
        \A i \in 1..Len(recentHistory) :
            verdicts[i] = "stat" <=> RejectedOnSurvivors(recentHistory[i])

\* A day of at least 5 sales, all past stage 1, one rejected by the ceiling.
StatCeilingReached ==
    /\ DayDone
    /\ Len(StageOneSurvivors) = Len(recentHistory)
    /\ \E i \in 1..Len(recentHistory) : verdicts[i] = "stat"

\* ------------------------------------------------------------------------
\* Claims checked under SpecTable
\* ------------------------------------------------------------------------

\* C7: a call of the daily aggregation that repeats the previous call (same
\* key, sale records, listings and clock) writes the same DailyStat, adds no
\* row, and the key has exactly one stored row.
C7_UpsertIdempotent ==
    /\ \A r1, r2 \in table : r1.stat_date = r2.stat_date => r1 = r2
    /\ lastCall.repeat =>
          /\ lastCall.row = lastCall.prevRow
          /\ Cardinality(table) = lastCall.rowsBefore
          /\ Cardinality(RowsOfDate(table, lastCall.statDate)) = 1

\* C7 witness: a repeated call on a day with sales, with another day stored.
C7_Witness ==
    /\ lastCall.repeat
    /\ lastCall.recentHistory # <<>>
    /\ Cardinality(table) = 2

\* C9 (as claimed): when the key's row carries a rolling 30-day typical
\* price, every sale priced above twenty times it is rejected.
C9_RollingAnchorCeiling ==
    (lastCall.row # Null /\ lastCall.storedAnchor # Null) =>
        \A i \in 1..Len(lastCall.recentHistory) :
            10 * lastCall.recentHistory[i].pricePerUnit
                    > AnchorCeilingFactor * Val(lastCall.storedAnchor)
                => lastCall.verdicts[i] # "keep"

\* The sales of the latest call that the filter kept.
KeptOfCall == KeepWhere(lastCall.recentHistory, lastCall.verdicts)

\* Ten times the doubled clamp base of the latest call: the key's stored
\* rolling anchor when its row has one, the day's median otherwise.
ClampBase20 ==
    IF lastCall.storedAnchor # Null
    THEN 2 * Val(lastCall.storedAnchor)
    ELSE 10 * Median2([i \in 1..Len(lastCall.recentHistory) |->
                          lastCall.recentHistory[i].pricePerUnit])

\* C11 (as claimed): the effective unit prices behind robust_avg_price and
\* robust_total_revenue are at most anchor x 10, the anchor being the key's
\* rolling typical price when it exists and the day's median otherwise: the
\* robust average is at most that cap and the robust revenue at most the
\* surviving quantities times that cap.
C11_ClampedAtTenAnchors ==
    (lastCall.row # Null /\ KeptOfCall # <<>>) =>
        /\ Val(lastCall.row).robust_avg_price # Null
        /\ 20 * Val(Val(lastCall.row).robust_avg_price) <= 10 * ClampBase20
        /\ 20 * Val(lastCall.row).robust_total_revenue
              <= 10 * ClampBase20 * Units(KeptOfCall)

\* A column holds null (and not a number): compared as printed values,
\* a number and null being of different kinds.
IsNullColumn(x) == ToString(x) = ToString(Null)

\* C15 (as claimed): a call whose window holds no sale upserts the row of
\* the key and date with units_sold, total_revenue and avg_price 0, null
\* min_price and max_price, and every robust figure null.
C15_ZeroSalesDayAllRobustNull ==
    (lastCall.row # Null /\ lastCall.recentHistory = <<>>) =>
        /\ Cardinality(RowsOfDate(table, lastCall.statDate)) = 1
        /\ \A r \in RowsOfDate(table, lastCall.statDate) :
              /\ r.units_sold = 0
              /\ r.total_revenue = 0
              /\ r.avg_price = 0
              /\ r.min_price = Null
              /\ r.max_price = Null
              /\ IsNullColumn(r.robust_avg_price)
              /\ IsNullColumn(r.robust_total_revenue)
              /\ IsNullColumn(r.robust_units_sold)

\* C15 (amended): a call whose window holds no sale upserts the row of the
\* key and date, with units_sold, total_revenue and avg_price 0, null
\* min_price and max_price, a null robust_avg_price and the robust sums and
\* sample size 0.
C15_ZeroSalesDayWritten ==
    (lastCall.row # Null /\ lastCall.recentHistory = <<>>) =>
        /\ Cardinality(RowsOfDate(table, lastCall.statDate)) = 1
        /\ \A r \in RowsOfDate(table, lastCall.statDate) :
              /\ r.units_sold = 0
              /\ r.total_revenue = 0
              /\ r.avg_price = 0
              /\ r.min_price = Null
              /\ r.max_price = Null
              /\ r.robust_avg_price = Null
              /\ r.robust_total_revenue = 0
              /\ r.robust_units_sold = 0
              /\ r.robust_sample_size = 0
              /\ r.active_listings = Len(lastCall.listings)

\* C15 witness: a second day without sales is aggregated, with listings on
\* the board, after the first day's row was stored.
C15_Witness ==
    /\ lastCall.row # Null
    /\ lastCall.recentHistory = <<>>
    /\ lastCall.listings # <<>>
    /\ lastCall.statDate = 1
    /\ Cardinality(table) = 2

\* C25 (as claimed): an aggregation run for a key leaves unchanged the
\* typical_price_30d and price_p90_30d that a backfill already wrote on the
\* key's row.
C25_AnchorsSurviveAggregation ==
    (lastCall.row # Null /\ lastCall.storedAnchor # Null) =>
        \A r \in RowsOfDate(table, lastCall.statDate) :
            r.typical_price_30d # Null /\ r.price_p90_30d # Null

\* What the code does instead: the row an aggregation run has just written
\* carries null anchors, until the next backfill.
AggregationNullsAnchors ==
    lastCall.row # Null =>
        /\ Val(lastCall.row).typical_price_30d = Null
        /\ Val(lastCall.row).price_p90_30d = Null

\* units_sold and total_revenue summed over the stored rows of the key.
StoredUnits ==
    SumSeq([k \in 1..Cardinality(table) |-> ByDate(table)[k].units_sold])

StoredRevenue ==
    SumSeq([k \in 1..Cardinality(table) |-> ByDate(table)[k].total_revenue])

\* C26 (as claimed): each sale record of the key is counted in the
\* units_sold and total_revenue of at most one stored daily row, so the
\* rows together count no more than the sale records hold.
C26_SaleCountedOnce ==
    /\ StoredUnits <= Units(history)
    /\ StoredRevenue <= Revenue(history)

\* With every run on one calendar day the rows count no sale twice.
CountedOnceWithinADay ==
    Cardinality(table) <= 1 => C26_SaleCountedOnce

\* A day's row holding a sale, written by a run.
SaleStored ==
    /\ Cardinality(table) = 1
    /\ StoredUnits = Units(history)
    /\ history # <<>>

\* ------------------------------------------------------------------------
\* Claims checked under SpecAnchor
\* ------------------------------------------------------------------------

AnchorOf(rows, d) ==
    {<<r.typical_price_30d, r.price_p90_30d>> : r \in RowsOfDate(rows, d)}

\* C8: two histories that agree on every row dated before D get the same
\* typical_price_30d and price_p90_30d on the row dated D, whatever their
\* rows dated D or later contain.
C8_AnchorCausality ==
    (pc = "done" /\ anchoredA # {}) =>
        /\ {r \in historyA : r.stat_date < anchorDay}
              = {r \in historyB : r.stat_date < anchorDay}
        /\ AnchorOf(anchoredA, anchorDay) = AnchorOf(anchoredB, anchorDay)

\* C8 witness: the histories differ on the row of D itself and on a later
\* row, and the run wrote a non-null anchor on the row of D.
C8_Witness ==
    /\ pc = "done"
    /\ anchorDay = 35
    /\ RowsOfDate(historyA, 35) # RowsOfDate(historyB, 35)
    /\ RowsOfDate(historyA, 36) # RowsOfDate(historyB, 36)
    /\ \E r \in RowsOfDate(anchoredA, 35) : r.typical_price_30d # Null

\* The rows dated 1 to 30 days before D that have a price to contribute.
Prior30Days(rows, D) ==
    {r \in rows : /\ 1 <= D - r.stat_date
                  /\ D - r.stat_date <= AnchorWindowDays
                  /\ RepresentativePrice(r) > 0}

PricesByDate(rows) ==
    [k \in 1..Cardinality(rows) |-> RepresentativePrice(ByDate(rows)[k])]

AnchorFrom(rows) ==
    <<AnchorMedian10(PricesByDate(rows)), Percentile90x10(PricesByDate(rows))>>

\* The backfill run fetched and rewrote the row dated anchorDay.
AnchorRewritten ==
    pc = "done" /\ anchorDay >= backfillDay - BackfillCutoffDays

\* C19 (as claimed): the anchor written on the row dated D is computed from
\* exactly the rows of the key dated d with 1 <= D - d <= 30: the row of D
\* and rows 31 or more days older never contribute, and a row exactly 30
\* days older does.
C19_WindowIsPrior30Days ==
    AnchorRewritten =>
        AnchorOf(anchoredA, anchorDay) = {AnchorFrom(Prior30Days(historyA, anchorDay))}

\* Among the rows the run fetched (dated within 60 days of the run) the
\* window is the claimed one.
WindowAmongFetched ==
    AnchorRewritten =>
        AnchorOf(anchoredA, anchorDay) =
            {AnchorFrom({r \in Prior30Days(historyA, anchorDay) :
                            r.stat_date >= backfillDay - BackfillCutoffDays})}

\* A row exactly 30 days older contributes and one 31 days older does not.
WindowEdgesReached ==
    /\ AnchorRewritten
    /\ anchorDay = 35
    /\ \E r \in RowsOfDate(historyA, 5) : RepresentativePrice(r) > 0
    /\ RowsOfDate(historyA, 0) # {}
    /\ \E r \in RowsOfDate(anchoredA, 35) : r.typical_price_30d # Null

\* The claimed representative price of a day: robust_avg_price when it is
\* non-null and positive, otherwise avg_price when that is positive, and
\* none (the day is skipped) when both are null or zero.
ClaimedPrice(r) ==
    IF r.robust_avg_price # Null /\ Val(r.robust_avg_price) > 0
    THEN Some(Val(r.robust_avg_price))
    ELSE IF r.avg_price > 0 THEN Some(r.avg_price)
    ELSE Null

\* The rows the run had in the window of D: fetched, and 1 to 30 days older.
FetchedWindow(rows, D) ==
    {r \in rows : /\ 1 <= D - r.stat_date
                  /\ D - r.stat_date <= AnchorWindowDays
                  /\ r.stat_date >= backfillDay - BackfillCutoffDays}

ClaimedPricesByDate(rows) ==
    LET priced == {r \in rows : ClaimedPrice(r) # Null}
    IN  [k \in 1..Cardinality(priced) |-> Val(ClaimedPrice(ByDate(priced)[k]))]

\* C20: for each window day the anchor's representative price is
\* robust_avg_price when it is non-null and positive, otherwise avg_price
\* when that is positive; a day is skipped only when both are null or zero.
C20_RepresentativePrice ==
    AnchorRewritten =>
        LET prices == ClaimedPricesByDate(FetchedWindow(historyA, anchorDay))
        IN  AnchorOf(anchoredA, anchorDay)
                = {<<AnchorMedian10(prices), Percentile90x10(prices)>>}

\* C20 witness: the window of D = 36 holds a day with a robust price that
\* differs from its avg_price, and the anchor is that robust price.
C20_Witness ==
    /\ AnchorRewritten
    /\ anchorDay = 36
    /\ \E r \in RowsOfDate(historyA, 35) :
          r.robust_avg_price = Some(300) /\ r.avg_price = 900
    /\ FetchedWindow(historyA, 36) = RowsOfDate(historyA, 35)
    /\ \E r \in RowsOfDate(anchoredA, 36) : r.typical_price_30d = Some(3000)

\* A window day without a robust price contributes its avg_price, and a
\* day with neither is skipped.
FallbackAndSkipReached ==
    /\ AnchorRewritten
    /\ anchorDay = 35
    /\ \E r \in RowsOfDate(historyA, 5) :
          r.robust_avg_price = Null /\ r.avg_price = 200
    /\ \E r \in RowsOfDate(historyA, 0) : TRUE
    /\ \E r \in RowsOfDate(anchoredA, 35) : r.typical_price_30d = Some(2000)

\* ------------------------------------------------------------------------
\* Claims checked under SpecMetrics
\* ------------------------------------------------------------------------

MetricsDone == pc = "done" /\ filters.path # "none"

\* The stored rows of an item inside the request's timeframe, by date.
WindowRows(id) ==
    ByDate({r \in dailyItemStats :
              /\ r.item_id = id
              /\ r.stat_date >= CutoffDate(MetricsToday, filters.days)})

ReturnedIds == {itemsWithMetrics[i].id : i \in 1..Len(itemsWithMetrics)}

\* The items as the handler computed them, before its threshold filters.
ComputedItems ==
    IF filters.path = "route"
    THEN [i \in 1..Len(aggregatedItems) |-> RouteMetrics(aggregatedItems[i], filters.days)]
    ELSE aggregatedItems

SatisfiesCategory(category) ==
    filters.categories # {} => category \in filters.categories

SatisfiesCraftable(isCraftable) ==
    /\ filters.craftableOnly => isCraftable
    /\ filters.nonCraftableOnly => ~isCraftable

SatisfiesThresholds(item) ==
    /\ filters.minSalesVelocity # Null =>
          item.unitsSold >= Val(filters.minSalesVelocity) * item.days
    /\ filters.minRevenue # Null => item.totalRevenue >= Val(filters.minRevenue)
    /\ filters.maxListings # Null => item.activeListings <= Val(filters.maxListings)
    /\ filters.minPrice # Null => item.avgPrice >= Val(filters.minPrice)

SatisfiesAll(item) ==
    /\ SatisfiesCategory(item.category)
    /\ SatisfiesCraftable(item.isCraftable)
    /\ SatisfiesThresholds(item)

ThresholdsUnset ==
    /\ filters.minSalesVelocity = Null
    /\ filters.minRevenue = Null
    /\ filters.maxListings = Null
    /\ filters.minPrice = Null

\* C5 (as claimed): for a request whose craftable flags are not both set,
\* the filter stage returns exactly the items that satisfy every set
\* predicate: each returned item satisfies them, each computed item that
\* satisfies them is returned, and with the four thresholds unset every item
\* that has a sale in the timeframe and satisfies the category and craftable
\* predicates is returned.
C5_FilterExact ==
    (MetricsDone /\ ~(filters.craftableOnly /\ filters.nonCraftableOnly)) =>
        /\ \A i \in 1..Len(itemsWithMetrics) : SatisfiesAll(itemsWithMetrics[i])
        /\ \A i \in 1..Len(ComputedItems) :
              SatisfiesAll(ComputedItems[i]) => ComputedItems[i].id \in ReturnedIds
        /\ \A id \in 1..Len(ItemCatalog) :
              (/\ ThresholdsUnset
               /\ filters.mode # "robust"
               /\ \E k \in 1..Len(WindowRows(id)) : WindowRows(id)[k].units_sold > 0
               /\ SatisfiesCategory(ItemCatalog[id].category)
               /\ SatisfiesCraftable(ItemCatalog[id].is_craftable))
                  => id \in ReturnedIds

\* C6 (as claimed): on every code path the avg_price of an item is
\* round(total_revenue / units_sold) of the sums the path reports for the
\* item, and 0 when no unit was sold.
C6_AvgPriceIsRevenuePerUnit ==
    MetricsDone =>
        \A i \in 1..Len(itemsWithMetrics) :
            itemsWithMetrics[i].avgPrice =
                IF itemsWithMetrics[i].unitsSold > 0
                THEN RoundDiv(itemsWithMetrics[i].totalRevenue,
                              itemsWithMetrics[i].unitsSold)
                ELSE 0

\* The two handlers on the rows of the end-to-end scenario (10 units for
\* 100000 and 20 units for 250000): 11667 from calculateMetrics.
C6_LibraryScenario ==
    (/\ MetricsDone
     /\ filters.path = "lib"
     /\ \E i \in 1..Len(itemsWithMetrics) :
           /\ itemsWithMetrics[i].unitsSold = 30
           /\ itemsWithMetrics[i].totalRevenue = 350000)
        => \E i \in 1..Len(itemsWithMetrics) : itemsWithMetrics[i].avgPrice = 11667

C6_RouteScenario ==
    (/\ MetricsDone
     /\ filters.path = "route"
     /\ \E i \in 1..Len(itemsWithMetrics) :
           /\ itemsWithMetrics[i].unitsSold = 30
           /\ itemsWithMetrics[i].totalRevenue = 350000)
        => \E i \in 1..Len(itemsWithMetrics) : itemsWithMetrics[i].avgPrice = 11250

\* The rows that contribute to the route's aggregate of an item: returned
\* by the query and not skipped by the loop.
ContributingRows(id) ==
    {r \in dailyItemStats :
        /\ r.item_id = id
        /\ RouteQueryMatches(r, filters, MetricsToday)
        /\ ~(filters.mode = "robust" /\ ~HasRobust(r))}

\* C13 (as claimed): the units and revenue summed into one aggregate are
\* the robust figures of every contributing row or the raw figures of every
\* contributing row.
C13_NoMixedSums ==
    (MetricsDone /\ filters.path = "route") =>
        \A k \in 1..Len(aggregatedItems) :
            LET rows == ContributingRows(aggregatedItems[k].itemId)
            IN  \/ \A r \in rows : UseRobust(r, filters.mode)
                \/ \A r \in rows : ~UseRobust(r, filters.mode)

\* The rows behind a returned item on the path of the request.
RowsBehind(id) ==
    IF filters.path = "route" THEN ContributingRows(id)
    ELSE {r \in dailyItemStats :
             /\ r.item_id = id
             /\ r.stat_date >= CutoffDate(MetricsToday, filters.days)}

\* active_listings of the latest-dated row that has a positive count, 0
\* when no row has one.
LatestPositiveListings(rows) ==
    LET positive == {r \in rows : r.active_listings > 0}
    IN  IF positive = {} THEN 0
        ELSE (CHOOSE r \in positive :
                 \A o \in positive : o.stat_date <= r.stat_date).active_listings

\* C14 (as claimed): an item's activeListings is the count of its most
\* recent contributing row with a positive count.
C14_LatestPositiveListings ==
    MetricsDone =>
        \A i \in 1..Len(itemsWithMetrics) :
            itemsWithMetrics[i].activeListings
                = LatestPositiveListings(RowsBehind(itemsWithMetrics[i].id))

\* C14 on the route alone and on the library alone.
C14_OnRoute == filters.path = "route" => C14_LatestPositiveListings

C14_OnLibrary == filters.path = "lib" => C14_LatestPositiveListings

\* ------------------------------------------------------------------------
\* Claims checked under SpecStats
\* ------------------------------------------------------------------------

\* The k-th smallest element of a non-empty list, by counting: fewer than k
\* elements lie strictly below it and at least k lie at or below it.
OrderStat(values, k) ==
    CHOOSE v \in {values[i] : i \in 1..Len(values)} :
        /\ Cardinality({i \in 1..Len(values) : values[i] < v}) < k
        /\ k <= Cardinality({i \in 1..Len(values) : values[i] <= v})

\* Twice the median of a non-empty list, from its order statistics.
MiddleOfSorted2(values) ==
    LET n == Len(values)
    IN  IF n % 2 = 1 THEN 2 * OrderStat(values, (n + 1) \div 2)
        ELSE OrderStat(values, n \div 2) + OrderStat(values, n \div 2 + 1)

\* C16: median returns the middle element of the sorted input for odd length
\* and the mean of the two middle elements for even length, returns its
\* sentinel on empty input (0 in market-data.ts, null in backfill-anchors.ts),
\* and leaves the caller's array unmodified.
C16_MedianContract ==
    /\ statCall.fn = "median" =>
          /\ callerValues = statCall.values
          /\ statCall.values = <<>> => statCall.result = 0
          /\ statCall.values # <<>> =>
                statCall.result = MiddleOfSorted2(statCall.values)
    /\ statCall.fn = "anchorMedian" =>
          /\ callerValues = statCall.values
          /\ statCall.values = <<>> => statCall.result = Null
          /\ statCall.values # <<>> =>
                statCall.result = Some(5 * MiddleOfSorted2(statCall.values))

\* An unsorted even-length array whose two middle elements differ: the median
\* is their mean, 25, and the array is still in the caller's order.
C16_Witness ==
    /\ statCall.fn = "median"
    /\ statCall.values = <<90, 10, 30, 20>>
    /\ statCall.result = 50
    /\ callerValues = <<90, 10, 30, 20>>

\* The order statistics percentile interpolates between, and the tenths of
\* the way from the lower to the upper one.
RankOf(values, p10) ==
    LET idx10 == (Len(values) - 1) * p10
    IN  [lower |-> idx10 \div 10 + 1,
         upper |-> IF idx10 % 10 = 0 THEN idx10 \div 10 + 1 ELSE idx10 \div 10 + 2,
         frac10 |-> idx10 % 10]

\* C17: percentile(xs, p) interpolates linearly between the order statistics
\* at the fractional rank (n - 1) * p; for every non-empty xs,
\* percentile(xs, 0) is exactly min(xs) and percentile(xs, 1) is exactly
\* max(xs).
C17_PercentileInterpolates ==
    (statCall.fn = "percentile" /\ statCall.values # <<>>) =>
        LET xs == statCall.values
            rank == RankOf(xs, statCall.p10)
            low == OrderStat(xs, rank.lower)
            high == OrderStat(xs, rank.upper)
        IN  /\ statCall.result = Some(10 * low + (high - low) * rank.frac10)
            /\ statCall.p10 = 0 => statCall.result = Some(10 * MinOf(xs))
            /\ statCall.p10 = 10 => statCall.result = Some(10 * MaxOf(xs))

\* percentile of an unsorted array at p = 1 is its maximum.
C17_Witness ==
    /\ statCall.fn = "percentile"
    /\ statCall.p10 = 10
    /\ statCall.values = <<90, 10, 30>>
    /\ statCall.result = Some(900)

\* percentile([10, 20, 30, 90], 0.5) is 25, between the two middle elements.
PercentileHalfway ==
    /\ statCall.fn = "percentile"
    /\ statCall.p10 = 5
    /\ statCall.values = <<10, 20, 30, 90>>
    /\ statCall.result = Some(250)

\* ------------------------------------------------------------------------
\* Claims checked under SpecAnchor, on the statistics of the window
\* ------------------------------------------------------------------------

\* The eligible price series of the row dated anchorDay: the prices of the
\* window days the run gathered that have a positive price, by date.
EligiblePrices ==
    PricesByDate({r \in FetchedWindow(historyA, anchorDay) : RepresentativePrice(r) > 0})

\* C21: typical_price_30d and price_p90_30d are both null when the window
\* has no eligible day, and otherwise equal the median and the 90th
\* percentile of the eligible price series; the run ends without an error
\* on an empty window.
C21_AnchorsNullOrQuantiles ==
    AnchorRewritten =>
        \A r \in RowsOfDate(anchoredA, anchorDay) :
            IF EligiblePrices = <<>>
            THEN r.typical_price_30d = Null /\ r.price_p90_30d = Null
            ELSE LET rank == RankOf(EligiblePrices, 9)
                     low == OrderStat(EligiblePrices, rank.lower)
                     high == OrderStat(EligiblePrices, rank.upper)
                 IN  /\ r.typical_price_30d = Some(5 * MiddleOfSorted2(EligiblePrices))
                     /\ r.price_p90_30d = Some(10 * low + (high - low) * rank.frac10)

\* C21 witness: the window of the rewritten row holds days, none of them
\* eligible, and both anchors are null.
C21_Witness ==
    /\ AnchorRewritten
    /\ Cardinality(FetchedWindow(historyA, anchorDay)) = 2
    /\ EligiblePrices = <<>>
    /\ \E r \in RowsOfDate(anchoredA, anchorDay) :
          r.typical_price_30d = Null /\ r.price_p90_30d = Null

\* A window of two eligible days with different prices: the median is
\* their mean and the 90th percentile lies nine tenths of the way up.
TwoPriceWindowReached ==
    /\ AnchorRewritten
    /\ EligiblePrices = <<200, 300>>
    /\ \E r \in RowsOfDate(anchoredA, anchorDay) :
          r.typical_price_30d = Some(2500) /\ r.price_p90_30d = Some(2900)

\* ------------------------------------------------------------------------
\* Claims checked under SpecDay, on the single-unit guard and the sums
\* ------------------------------------------------------------------------

\* Q3 of the day's prices, doubled: the median of the upper half of the
\* sorted prices, the middle one of an odd number left out, and the
\* sentinel 0 when the upper half is empty.
UpperHalfMedian2(prices) ==
    LET n == Len(prices)
        m == n \div 2
        base == n - m
    IN  IF m = 0 THEN 0
        ELSE IF m % 2 = 1 THEN 2 * OrderStat(prices, base + (m + 1) \div 2)
        ELSE OrderStat(prices, base + m \div 2) + OrderStat(prices, base + m \div 2 + 1)

DayPrices == [i \in 1..Len(recentHistory) |-> recentHistory[i].pricePerUnit]

\* The item is presumed cheap: its anchor is below 1000, or with no anchor
\* the day's median is.
PresumedCheap ==
    IF keyAnchor # Null THEN Val(keyAnchor) < 10 * CheapAnchorLimit
    ELSE MiddleOfSorted2(DayPrices) < 2 * CheapAnchorLimit

\* C23 (as claimed): the single-unit guard applies only when the anchor (or
\* the day median when no anchor exists) is below 1000, and then rejects
\* exactly the surviving sales with quantity 1 priced above Q3 x 20; it
\* rejects no sale with quantity > 1 and no sale of an item whose anchor is
\* 1000 or more.
C23_SingleUnitGuard ==
    DayDone =>
        \A i \in 1..Len(recentHistory) :
            verdicts[i] = "single" <=>
                /\ verdicts[i] \notin {"anchor", "stat"}
                /\ PresumedCheap
                /\ recentHistory[i].quantity = 1
                /\ 2 * recentHistory[i].pricePerUnit > 20 * UpperHalfMedian2(DayPrices)

\* With no anchor on the key's row the guard is the claimed one.
GuardOnDayMedian == keyAnchor = Null => C23_SingleUnitGuard

\* The guard rejects a sale, on a key without an anchor.
GuardBites ==
    /\ DayDone
    /\ keyAnchor = Null
    /\ \E i \in 1..Len(recentHistory) : verdicts[i] = "single"

\* The clamped unit price of a kept sale: its price, or ten day medians when
\* that is lower (no clamp when the median is 0).
ClampedPrice(e, med2) ==
    IF med2 > 0 /\ 2 * e.pricePerUnit > ClampFactor * med2
    THEN (ClampFactor * med2) \div 2
    ELSE e.pricePerUnit

\* C24: robust_sample_size is the number of sales surviving the outlier
\* filter, robust_units_sold the sum of their quantities,
\* robust_total_revenue the sum of clamped price x quantity over them, and
\* robust_avg_price the rounded median of their clamped unit prices (null
\* when no sale survives).
C24_RobustColumns ==
    DayDone =>
        LET kept == KeptOfDay
            med2 == IF DayPrices = <<>> THEN 0 ELSE MiddleOfSorted2(DayPrices)
            clampedPrices == [i \in 1..Len(kept) |-> ClampedPrice(kept[i], med2)]
            row == Val(dailyRow)
        IN  /\ row.robust_sample_size = Len(kept)
            /\ row.robust_units_sold = SumSeq([i \in 1..Len(kept) |-> kept[i].quantity])
            /\ row.robust_total_revenue =
                  SumSeq([i \in 1..Len(kept) |-> clampedPrices[i] * kept[i].quantity])
            /\ row.robust_avg_price =
                  IF kept = <<>> THEN Null
                  ELSE Some(RoundDiv(MiddleOfSorted2(clampedPrices), 2))

\* C24 witness: a day with a rejected sale, a kept sale that the clamp
\* lowers, and a robust median that falls between two prices.
C24_Witness ==
    /\ ClampBites
    /\ Len(KeptOfDay) < Len(recentHistory)
    /\ Len(KeptOfDay) >= 2
    /\ Val(dailyRow).robust_total_revenue < Revenue(KeptOfDay)

\* ------------------------------------------------------------------------
\* Claims checked under SpecAnchor, on the rows a run writes
\* ------------------------------------------------------------------------

\* The rows the run fetched and rewrote.
WrittenRows ==
    {r \in anchoredA : r.stat_date >= backfillDay - BackfillCutoffDays}

\* C27 (as claimed): for every row a backfill run writes, the written anchor
\* equals the anchor defined over all stored rows of the key in the 30 days
\* before that row, rows older than the run's 60-day fetch cutoff included.
C27_AnchorOverAllStoredRows ==
    pc = "done" =>
        \A r \in WrittenRows :
            <<r.typical_price_30d, r.price_p90_30d>>
                = AnchorFrom(Prior30Days(historyA, r.stat_date))

\* A run whose cutoff lies before every stored row writes the anchors over
\* all stored rows.
FullFetchIsExact ==
    (pc = "done" /\ \A r \in historyA : r.stat_date >= backfillDay - BackfillCutoffDays)
        => \A r \in WrittenRows :
              <<r.typical_price_30d, r.price_p90_30d>>
                  = AnchorFrom(Prior30Days(historyA, r.stat_date))

\* Such a run, writing a non-null anchor.
FullFetchReached ==
    /\ pc = "done"
    /\ \A r \in historyA : r.stat_date >= backfillDay - BackfillCutoffDays
    /\ \E r \in WrittenRows : r.typical_price_30d # Null

\* ------------------------------------------------------------------------
\* Claims checked under SpecDay, on what the filter keeps
\* ------------------------------------------------------------------------

\* The sale is priced at or below the day's median.
AtOrBelowMedian(e) == 2 * e.pricePerUnit <= MiddleOfSorted2(DayPrices)

\* C28 (as claimed): the outlier filter never rejects a sale whose unit
\* price is at or below the day's median price, for any day size, a day
\* with a single sale of quantity 1 included.
C28_MedianSaleKept ==
    DayDone =>
        \A i \in 1..Len(recentHistory) :
            AtOrBelowMedian(recentHistory[i]) => verdicts[i] = "keep"

\* On days of two or more sales no sale at or below the median is rejected.
MedianSaleKeptFromTwo ==
    Len(recentHistory) >= 2 => C28_MedianSaleKept

\* A day of five or more sales with a rejection, the sales at or below the
\* median all kept.
RejectionAboveMedian ==
    /\ DayDone
    /\ Len(recentHistory) >= 5
    /\ \E i \in 1..Len(recentHistory) : verdicts[i] # "keep"
    /\ \E i \in 1..Len(recentHistory) :
          AtOrBelowMedian(recentHistory[i]) /\ verdicts[i] = "keep"

\* C29: in every row the aggregation writes, robust_sample_size is at most
\* the number of sales in the window, robust_units_sold at most units_sold
\* and robust_total_revenue at most total_revenue.
C29_RobustWithinRaw ==
    DayDone =>
        /\ Val(dailyRow).robust_sample_size <= Len(recentHistory)
        /\ Val(dailyRow).robust_units_sold <= Val(dailyRow).units_sold
        /\ Val(dailyRow).robust_total_revenue <= Val(dailyRow).total_revenue

\* C29 witness: a row whose robust figures are all strictly below the raw
\* ones, with sales surviving.
C29_Witness ==
    /\ DayDone
    /\ Val(dailyRow).robust_sample_size > 0
    /\ Val(dailyRow).robust_sample_size < Len(recentHistory)
    /\ Val(dailyRow).robust_units_sold < Val(dailyRow).units_sold
    /\ Val(dailyRow).robust_total_revenue < Val(dailyRow).total_revenue

\* ------------------------------------------------------------------------
\* Claims checked under SpecFetch
\* ------------------------------------------------------------------------

CallsInProgress == BagToSet(fetchCalls)

\* The requests the calls in progress hold, counted call by call.
RECURSIVE HeldBy(_)
HeldBy(calls) ==
    IF calls = {} THEN 0
    ELSE LET call == CHOOSE c \in calls : TRUE
         IN  call.held * CopiesIn(call, fetchCalls) + HeldBy(calls \ {call})

\* Every call has made at most 4 fetch attempts; each acquire is matched by
\* one release, so a call holds a request exactly while its XIVAPI fetch is
\* in flight, and activeRequests counts those calls and stays within 0..5.
FetchSafety ==
    /\ \A call \in CallsInProgress :
          /\ call.attempts <= MAX_RETRIES + 1
          /\ call.held = IF call.api = "xivapi" /\ call.pc = "fetch" THEN 1 ELSE 0
    /\ activeRequests = HeldBy(CallsInProgress)
    /\ activeRequests \in 0..MAX_CONCURRENT

\* A call ends by itself: one call leaves, and one more is returned or
\* thrown; a throw comes only out of the attempt with no retries left, the
\* fourth.
EndsByReturnOrThrow ==
    /\ thrown' >= thrown /\ returned' >= returned
    /\ BagCardinality(fetchCalls') + returned' + thrown'
         = BagCardinality(fetchCalls) + returned + thrown
    /\ thrown' > thrown =>
          \E call \in CallsInProgress :
             /\ call.pc = "fetch"
             /\ call.attempts = MAX_RETRIES + 1
             /\ fetchCalls' = fetchCalls (-) SetToBag({call})

AllFinished == fetchCalls = EmptyBag /\ activeRequests = 0

\* C30: a call of fetchWithRetry or rateLimitedFetch with the default 3
\* retries always terminates, makes at most 4 fetch attempts for any mix of
\* network errors, 429 and other non-OK responses, and ends with an OK
\* response or a thrown error; in the XIVAPI limiter every acquire is
\* matched by exactly one release, so activeRequests stays within 0..5.
C30_FetchTerminatesBounded ==
    []FetchSafety /\ [][EndsByReturnOrThrow]_vars /\ <>AllFinished

\* C30 witness: five XIVAPI requests are in flight, one of them the fourth
\* attempt of its call, a sixth call waits in acquire, and the bucket has
\* run dry on the way.
C30_Witness ==
    /\ activeRequests = MAX_CONCURRENT
    /\ tokens = 0
    /\ \E call \in CallsInProgress : call.pc = "start" /\ call.api = "xivapi"
    /\ \E call \in CallsInProgress :
          call.pc = "fetch" /\ call.attempts = MAX_RETRIES + 1

\* Six XIVAPI calls have all ended, some returned and some thrown, and the
\* limiter is idle again.
AllSettled ==
    /\ AllFinished
    /\ returned + thrown = MaxCallers
    /\ returned > 0 /\ thrown > 0
    /\ tokens < RATE_LIMIT_RPS

====
